---- MODULE Spec2Model ----
(***************************************************************************)
(* KindleToOrg: the status marker (Todo), the three-level record model     *)
(* (Annotation / Book / Author), the merge engine, the outline parser and  *)
(* serializer, and the main pipeline of kindle_to_org.py / base_org.py.    *)
(*                                                                         *)
(* Python values are modelled as follows.  A str that the code slices,     *)
(* strips or concatenates is a sequence of one-character strings.  Enum    *)
(* members are their value strings.  A raised exception is a record        *)
(* [exc |-> <exception class name>].                                       *)
(***************************************************************************)
EXTENDS Integers, Sequences, FiniteSets, TLC

VARIABLES
  pc,           \* the operation that was called last ("idle": none yet)
  args,         \* the arguments of that call
  ret,          \* what the call returned or raised
  kindle_file,  \* the text of the clippings file (-k), as lines
  org_file      \* the text of the outline file (-o), as lines

vars == <<pc, args, ret, kindle_file, org_file>>

(***************************************************************************)
(* base_org.py: Todo                                                       *)
(***************************************************************************)

\* Python None, for the string-valued optional fields.
None == "None"

Unchecked == "[ ]"
Checked == "[X]"
CheckStart == "[-]"
CheckWait == "[?]"
TodoTodo == "TODO"
Strt == "STRT"
Proj == "PROJ"
Wait == "WAIT"
Hold == "HOLD"
Done == "DONE"
Kill == "KILL"
NoTodo == ""

\* The members of the Todo enumeration, by value.
Todo ==
  {Unchecked, Checked, CheckStart, CheckWait, TodoTodo, Strt, Proj, Wait,
   Hold, Done, Kill, NoTodo}

\* order with the checked box moved behind the TODO keyword.
order_checked_late ==
  <<"", "[ ]", "[-]", "[?]", "TODO", "[X]", "STRT", "PROJ", "WAIT", "HOLD",
    "DONE", "KILL">>

\* The local list `order` of Todo._merge.
order ==
  <<"", "[ ]", "[-]", "[?]", "[X]", "TODO", "STRT", "PROJ", "WAIT", "HOLD",
    "DONE", "KILL">>

\* list.index: the position of the first occurrence of v in l.
index(l, v) ==
  CHOOSE i \in 1..Len(l) : l[i] = v /\ \A j \in 1..(i - 1) : l[j] # v

\* Todo._merge that keeps the less advanced of the two states.
Todo_merge_keeps_earlier(self, other) ==
  IF index(order, self) > index(order, other) THEN other ELSE self

\* Todo._merge(self, other)
Todo_merge(self, other) ==
  IF index(order, self) < index(order, other) THEN other ELSE self

(***************************************************************************)
(* Python values                                                           *)
(***************************************************************************)

\* Python None, for the fields that hold a str (a sequence of characters).
NoneStr == <<"None">>

\* Python None, for the fields that hold an EmacsDateTime.
NoneDate == -1

\* An int, a str or None inside a PageRange or a LocationRange.
PyInt(n) == [t |-> "int", v |-> n]
PyStr(s) == [t |-> "str", v |-> s]
PyNone == [t |-> "none", v |-> 0]

\* Python None, for the fields that hold a PageRange or a LocationRange.
NoneRange == <<>>

\* x == y for two elements of a range, and for two ranges.
PyEq(x, y) == x.t = y.t /\ x.v = y.v
RangeEq(a, b) == Len(a) = Len(b) /\ \A i \in 1..Len(a) : PyEq(a[i], b[i])

\* A file that does not exist; the text of a file has at least one line.
NoFile == <<>>

\* A call that returned v, and a call that raised the exception e.
Ok(v) == [exc |-> "none", val |-> v]
Raise(e) == [exc |-> e, val |-> 0]
IsExc(r) == r.exc # "none"

\* min(S) for a set of ints.
Least(S) == CHOOSE i \in S : \A j \in S : i <= j

\* The characters str.strip() removes.
Whitespace == {" ", "\n", "\t"}

RECURSIVE lstrip(_)
lstrip(s) ==
  IF s # <<>> /\ Head(s) \in Whitespace THEN lstrip(Tail(s)) ELSE s

RECURSIVE rstrip(_)
rstrip(s) ==
  IF s # <<>> /\ s[Len(s)] \in Whitespace
    THEN rstrip(SubSeq(s, 1, Len(s) - 1))
    ELSE s

\* str.strip()
strip(s) == rstrip(lstrip(s))

\* `x or ""` for an Optional[str] x.
OrEmpty(x) == IF x = NoneStr THEN <<>> ELSE x

(***************************************************************************)
(* Python str operations on sequences of characters                        *)
(***************************************************************************)

\* The characters of the model in code point order: tab, newline and the
\* printable ASCII characters (without the backquote).
CodePoints ==
  <<"\t", "\n", " ", "!", "\"", "#", "$", "%", "&", "'", "(", ")", "*", "+",
    ",", "-", ".", "/", "0", "1", "2", "3", "4", "5", "6", "7", "8", "9",
    ":", ";", "<", "=", ">", "?", "@", "A", "B", "C", "D", "E", "F", "G",
    "H", "I", "J", "K", "L", "M", "N", "O", "P", "Q", "R", "S", "T", "U",
    "V", "W", "X", "Y", "Z", "[", "\\", "]", "^", "_", "a", "b", "c",
    "d", "e", "f", "g", "h", "i", "j", "k", "l", "m", "n", "o", "p", "q",
    "r", "s", "t", "u", "v", "w", "x", "y", "z", "{", "|", "}", "~">>

\* ord(c), up to the offset of the table.
ord(c) == index(CodePoints, c)

\* str < str: lexicographic comparison by code point.
RECURSIVE StrLt(_, _)
StrLt(a, b) ==
  IF b = <<>> THEN FALSE
  ELSE IF a = <<>> THEN TRUE
  ELSE IF Head(a) # Head(b) THEN ord(Head(a)) < ord(Head(b))
  ELSE StrLt(Tail(a), Tail(b))

UpperCase == {CodePoints[i] : i \in ord("A")..ord("Z")}
LowerCase == {CodePoints[i] : i \in ord("a")..ord("z")}
Digits == {CodePoints[i] : i \in ord("0")..ord("9")}

\* str.upper() and str.lower()
upper(s) ==
  [i \in 1..Len(s) |->
     IF s[i] \in LowerCase
       THEN CodePoints[ord(s[i]) - (ord("a") - ord("A"))]
       ELSE s[i]]
lower(s) ==
  [i \in 1..Len(s) |->
     IF s[i] \in UpperCase
       THEN CodePoints[ord(s[i]) + (ord("a") - ord("A"))]
       ELSE s[i]]

\* str(n) for an int n >= 0.
RECURSIVE IntToStr(_)
IntToStr(n) ==
  IF n < 10 THEN <<CodePoints[ord("0") + n]>>
  ELSE IntToStr(n \div 10) \o <<CodePoints[ord("0") + (n % 10)]>>

\* The value of a non-empty string of digits.
RECURSIVE DigitsToInt(_)
DigitsToInt(s) ==
  IF Len(s) = 1 THEN ord(s[1]) - ord("0")
  ELSE 10 * DigitsToInt(SubSeq(s, 1, Len(s) - 1))
         + (ord(s[Len(s)]) - ord("0"))

\* s.split(sep) for a one-character separator: the list of the pieces.
RECURSIVE split(_, _)
split(s, sep) ==
  IF \A i \in 1..Len(s) : s[i] # sep THEN <<s>>
  ELSE LET i == CHOOSE i \in 1..Len(s) :
                  s[i] = sep /\ \A j \in 1..(i - 1) : s[j] # sep
       IN <<SubSeq(s, 1, i - 1)>> \o split(SubSeq(s, i + 1, Len(s)), sep)

\* A str as the list of its lines, s.split("\n"): a + "\n" + b is the
\* concatenation of the lines of a and the lines of b.
Lines(s) == split(s, "\n")

\* "\n".join(texts), every text given by its lines.
RECURSIVE JoinLines(_)
JoinLines(texts) ==
  IF texts = <<>> THEN <<<<>>>>
  ELSE IF Len(texts) = 1 THEN texts[1]
  ELSE texts[1] \o JoinLines(Tail(texts))

\* s.startswith(prefix)
startswith(s, prefix) ==
  Len(s) >= Len(prefix) /\ SubSeq(s, 1, Len(prefix)) = prefix

(***************************************************************************)
(* base_org.py: Progress, BaseOrg                                          *)
(***************************************************************************)

\* Progress(num, denom)
Progress(num, denom) == [num |-> num, denom |-> denom]

\* The empty property map.
NoProperties == [k \in {} |-> NoneStr]

\* {**a, **b}
DictUnion(a, b) ==
  [k \in (DOMAIN a) \cup (DOMAIN b) |-> IF k \in DOMAIN b THEN b[k] ELSE a[k]]

\* BaseOrg._org_merge in which the properties of self win a collision.
BaseOrg_org_merge_keeps_own(self, other) ==
  [self EXCEPT
     !.status = Todo_merge(IF self.status = None THEN NoTodo ELSE self.status,
                           IF other.status = None THEN NoTodo
                           ELSE other.status),
     !.body = IF strip(OrEmpty(self.body)) = strip(OrEmpty(other.body))
                THEN strip(OrEmpty(self.body))
                ELSE strip(OrEmpty(self.body)) \o strip(OrEmpty(other.body)),
     !.properties = DictUnion(other.properties, self.properties)]

\* BaseOrg._org_merge(self, other): the value of self afterwards.
BaseOrg_org_merge(self, other) ==
  LET self_todo == IF self.status = None THEN NoTodo ELSE self.status
      other_todo == IF other.status = None THEN NoTodo ELSE other.status
      final_status == Todo_merge(self_todo, other_todo)
      sbody == OrEmpty(self.body)
      obody == OrEmpty(other.body)
      final_body == IF strip(sbody) = strip(obody)
                      THEN strip(sbody)
                      ELSE strip(sbody) \o strip(obody)
      final_props == DictUnion(self.properties, other.properties)
  IN [self EXCEPT
        !.status = final_status,
        !.body = final_body,
        !.properties = final_props]

\* BaseOrg.__hash__: the dataclass decorator (eq without frozen) sets it to
\* None, so the call super().__hash__() of a subclass raises TypeError.
BaseOrg_hash(self) == Raise("TypeError")

(***************************************************************************)
(* kindle_to_org.py: Annotation, Book, Author                              *)
(***************************************************************************)

Highlight == "Highlight"
Note == "Note"
Bookmark == "Bookmark"
AType == {Highlight, Note, Bookmark}

\* Annotation(...): the dataclass fields the program reads or writes.
Annotation(atype, title, author, series, status, page_number, location, creation_date, selection, my_note, body, properties) ==
  [heading |-> <<>>, status |-> status, body |-> body,
   creation_date |-> creation_date, level |-> 0, progress |-> Progress(0, 0),
   show_progress |-> FALSE, properties |-> properties,
   atype |-> atype, title |-> title, author |-> author, series |-> series,
   page_number |-> page_number, location |-> location,
   selection |-> selection, my_note |-> my_note]

\* Book(...)
Book(title, author, series, annotations, creation_date, body, status, properties) ==
  [heading |-> <<>>, status |-> status, body |-> body,
   creation_date |-> creation_date, level |-> 0, progress |-> Progress(0, 0),
   show_progress |-> FALSE, properties |-> properties,
   title |-> title, author |-> author, series |-> series,
   annotations |-> annotations]

\* Author(...)
Author(author_name, books, status, creation_date, body, properties) ==
  [heading |-> <<>>, status |-> status, body |-> body,
   creation_date |-> creation_date, level |-> 0, progress |-> Progress(0, 0),
   show_progress |-> FALSE, properties |-> properties,
   author_name |-> author_name, books |-> books]

\* Annotation.__eq__: the coarse identity (title, location, page).
Annotation_eq(self, other) ==
  /\ self.title = other.title
  /\ RangeEq(self.location, other.location)
  /\ RangeEq(self.page_number, other.page_number)

\* Annotation.__hash__: super().__hash__() is evaluated first; the md5 digest
\* is the list of the values fed to it.
Annotation_hash(self) ==
  LET org_hash == BaseOrg_hash(self)
  IN IF IsExc(org_hash) THEN org_hash
     ELSE IF self.status = None THEN Raise("AttributeError")
     ELSE Ok(<<self.page_number, self.location, self.atype, self.selection,
               self.my_note, self.creation_date, self.status, self.body,
               org_hash.val, self.properties>>)

\* The exceptions raised while hashing the annotations of l in order.
HashErrors(l) ==
  SelectSeq([i \in 1..Len(l) |-> Annotation_hash(l[i])], IsExc)

\* Book.__hash__
Book_hash(self) ==
  LET org_hash == BaseOrg_hash(self)
      errs == HashErrors(self.annotations)
  IN IF IsExc(org_hash) THEN org_hash
     ELSE IF errs # <<>> THEN errs[1]
     ELSE Ok(<<self.title, self.author, self.series, self.body, org_hash.val,
               [i \in 1..Len(self.annotations) |->
                  Annotation_hash(self.annotations[i]).val]>>)

\* Author.__hash__: the loop over self.books visits the titles, not the Books.
Author_hash(self) ==
  LET org_hash == BaseOrg_hash(self)
  IN IF IsExc(org_hash) THEN org_hash
     ELSE Ok(<<self.author_name, self.body, self.body, org_hash.val,
               self.properties, DOMAIN self.books>>)

\* hash(self) for an object of the class cls.
hash(cls, self) ==
  CASE cls = "Annotation" -> Annotation_hash(self)
    [] cls = "Book" -> Book_hash(self)
    [] cls = "Author" -> Author_hash(self)

(***************************************************************************)
(* kindle_to_org.py: the merge engine                                      *)
(***************************************************************************)

\* set(annotations): every element is hashed on insertion; an entry keeps the
\* hash the element had when it was inserted.
AnnotationSet(l) ==
  LET errs == HashErrors(l)
  IN IF errs # <<>> THEN errs[1]
     ELSE Ok({[h |-> Annotation_hash(l[i]).val, a |-> l[i]] : i \in 1..Len(l)})

\* `e in s` for a set of annotations: same hash and equal by __eq__.
InSet(e, s) == \E y \in s : y.h = e.h /\ Annotation_eq(e.a, y.a)

\* list(s): the elements of a set in one iteration order.
RECURSIVE SetToSeq(_)
SetToSeq(s) ==
  IF s = {} THEN <<>>
  ELSE LET x == CHOOSE x \in s : TRUE IN <<x>> \o SetToSeq(s \ {x})

\* _determine_merge(curr, left, right) of Book.merge.
determine_merge(curr, left, right) ==
  LET to_check == IF InSet(curr, left) THEN right ELSE left
      matches == {o \in to_check : Annotation_eq(curr.a, o.a)}
  IN IF matches = {} THEN curr.a
     ELSE BaseOrg_org_merge(curr.a, (CHOOSE o \in matches : TRUE).a)

\* The list `results` of Book.merge for the two sets.
Book_merge_results(self_set, other_set) ==
  LET intersection == {e \in self_set : InSet(e, other_set)}
      symmetric_difference ==
        {e \in self_set : ~InSet(e, other_set)}
          \cup {e \in other_set : ~InSet(e, self_set)}
      exclusives == SetToSeq(symmetric_difference)
  IN [i \in 1..Cardinality(intersection) |-> SetToSeq(intersection)[i].a]
       \o [i \in 1..Len(exclusives) |->
             determine_merge(exclusives[i], self_set, other_set)]

\* Book.merge after set(self.annotations) and set(other.annotations).
Book_merge_sets(self, other, self_set, other_set) ==
  IF IsExc(self_set) THEN self_set
  ELSE IF IsExc(other_set) THEN other_set
  ELSE Ok([BaseOrg_org_merge(self, other) EXCEPT
             !.annotations = Book_merge_results(self_set.val, other_set.val)])

\* Book.merge(self, other): the value of self afterwards, or the exception.
Book_merge(self, other) ==
  Book_merge_sets(self, other, AnnotationSet(self.annotations),
                  AnnotationSet(other.annotations))

\* dict.get(key, other[key]): the default other[key] is evaluated before the
\* call, so a key that other lacks raises KeyError.
GetOrIndex(d, other, key) ==
  IF key \notin DOMAIN other THEN Raise("KeyError")
  ELSE IF key \in DOMAIN d THEN Ok(d[key]) ELSE Ok(other[key])

\* A loop that fills a dict with the results of calls: an exception of one of
\* the calls, or Ok of the dict of the returned values.
CollectDict(rs) ==
  IF \E k \in DOMAIN rs : IsExc(rs[k])
    THEN rs[CHOOSE k \in DOMAIN rs : IsExc(rs[k])]
    ELSE Ok([k \in DOMAIN rs |-> rs[k].val])

\* The two loops of Author.merge and of merge_files, the first over the keys
\* of one side only, the second over the keys of both: the dict `results`.
MergeLoops(exclusive, merged) ==
  IF IsExc(exclusive) THEN exclusive
  ELSE IF IsExc(merged) THEN merged
  ELSE Ok(DictUnion(exclusive.val, merged.val))

\* Author.merge after hash(self) and hash(other).
Author_merge_hashed(self, other, hash_self, hash_other) ==
  LET self_books == DOMAIN self.books
      other_books == DOMAIN other.books
      symdiff_books ==
        (self_books \ other_books) \cup (other_books \ self_books)
      intersection_books == self_books \cap other_books
  IN IF IsExc(hash_self) THEN hash_self
     ELSE IF IsExc(hash_other) THEN hash_other
     ELSE IF hash_self.val # hash_other.val
       THEN MergeLoops(
              CollectDict([book \in symdiff_books |->
                             GetOrIndex(self.books, other.books, book)]),
              CollectDict([book \in intersection_books |->
                             Book_merge(self.books[book], other.books[book])]))
     ELSE Ok(self.books)

\* Author.merge after the books have been merged.
Author_merge_books(self, other, results) ==
  IF IsExc(results) THEN results
  ELSE Ok([BaseOrg_org_merge(self, other) EXCEPT !.books = results.val])

\* Author.merge(self, other): the value of self afterwards, or the exception.
Author_merge(self, other) ==
  Author_merge_books(
    self, other,
    Author_merge_hashed(self, other, Author_hash(self), Author_hash(other)))

\* merge_files without its first loop: only the names of both sides.
merge_files_shared_only(left, right) ==
  CollectDict([author_name \in (DOMAIN left) \cap (DOMAIN right) |->
                 Author_merge(left[author_name], right[author_name])])

\* merge_files(left, right): the returned map, or the exception.
merge_files(left, right) ==
  LET left_names == DOMAIN left
      right_names == DOMAIN right
      symmetric_difference ==
        (left_names \ right_names) \cup (right_names \ left_names)
      intersection == left_names \cap right_names
  IN MergeLoops(
       CollectDict([author_name \in symmetric_difference |->
                      GetOrIndex(left, right, author_name)]),
       CollectDict([author_name \in intersection |->
                      Author_merge(left[author_name], right[author_name])]))

(***************************************************************************)
(* utility_functions.py: roman_to_float; kindle_to_org.py: the orderings   *)
(***************************************************************************)

\* A Python int or Fraction x as the pair <<a, b>> with
\* 10000 * x = a * sys.maxsize + b and |b| far below sys.maxsize.
Big(a, b) == <<a, b>>
BigOfInt(n) == Big(0, 10000 * n)
BigLt(x, y) == x[1] < y[1] \/ (x[1] = y[1] /\ x[2] < y[2])

\* The dict rom_val, with rom_val.get(c, -maxsize) in units of 1/10000 of the
\* pairs above (so that the sum of the values is the numerator of the result).
rom_val(c) ==
  CASE c = "I" -> Big(0, 1)
    [] c = "V" -> Big(0, 5)
    [] c = "X" -> Big(0, 10)
    [] c = "L" -> Big(0, 50)
    [] c = "C" -> Big(0, 100)
    [] c = "D" -> Big(0, 500)
    [] c = "M" -> Big(0, 1000)
    [] OTHER -> Big(-1, 0)

\* The value of int_val after the loop of roman_to_float has visited s[1..i].
RECURSIVE roman_int_val(_, _)
roman_int_val(s, i) ==
  IF i = 0 THEN Big(0, 0)
  ELSE LET acc == roman_int_val(s, i - 1)
           cur == rom_val(s[i])
       IN IF i > 1 /\ BigLt(rom_val(s[i - 1]), cur)
            THEN LET prev == rom_val(s[i - 1])
                 IN Big(acc[1] + cur[1] - 2 * prev[1],
                        acc[2] + cur[2] - 2 * prev[2])
            ELSE Big(acc[1] + cur[1], acc[2] + cur[2])

\* roman_to_float(s) for an element of a PageRange: the number as a pair, or
\* PyNone.
roman_to_float(s) ==
  IF s.t = "int" THEN [t |-> "num", v |-> BigOfInt(s.v)]
  ELSE IF s.t = "none" \/ s.v = <<>> THEN PyNone
  ELSE LET int_val == roman_int_val(upper(s.v), Len(s.v))
       IN IF BigLt(int_val, Big(0, 0)) THEN PyNone
          ELSE [t |-> "num", v |-> int_val]

\* `roman_to_float(x) or -1`
PageKey(x) ==
  LET r == roman_to_float(x)
  IN IF r.t = "none" \/ r.v = Big(0, 0) THEN BigOfInt(-1) ELSE r.v

\* neg_inf = -sys.maxsize
neg_inf == Big(-10000, 0)

\* re.sub(r"^the |a ", "", s): i is the position of s[1] in the whole string.
RECURSIVE sub_articles(_, _)
sub_articles(s, i) ==
  IF s = <<>> THEN <<>>
  ELSE IF i = 1 /\ startswith(s, <<"t", "h", "e", " ">>)
    THEN sub_articles(SubSeq(s, 5, Len(s)), i + 4)
  ELSE IF startswith(s, <<"a", " ">>)
    THEN sub_articles(SubSeq(s, 3, Len(s)), i + 2)
  ELSE <<Head(s)>> \o sub_articles(Tail(s), i + 1)

\* `x[0] or -1` for the start x[0] of a LocationRange: a str stays a str, an
\* int n is the pair of n in units of 1.
LocationKey(x) ==
  IF x.t = "none" \/ (x.t = "int" /\ x.v = 0) \/ (x.t = "str" /\ x.v = <<>>)
    THEN [t |-> "num", v |-> Big(0, -1)]
  ELSE IF x.t = "int" THEN [t |-> "num", v |-> Big(0, x.v)]
  ELSE x

\* Annotation.__lt__(self, other): Ok(TRUE), Ok(FALSE) or the exception.
Annotation_lt(self, other) ==
  LET self_title == sub_articles(lower(self.title), 1)
      other_title == sub_articles(lower(other.title), 1)
      self_page == IF self.page_number # NoneRange
                     THEN PageKey(self.page_number[1]) ELSE neg_inf
      other_page == IF other.page_number # NoneRange
                      THEN PageKey(other.page_number[1]) ELSE neg_inf
      self_location == IF self.location # NoneRange
                         THEN LocationKey(self.location[1])
                         ELSE [t |-> "num", v |-> Big(-1, 0)]
      other_location == IF other.location # NoneRange
                          THEN LocationKey(other.location[1])
                          ELSE [t |-> "num", v |-> Big(-1, 0)]
  IN IF self.author # other.author THEN
       IF self.author = NoneStr \/ other.author = NoneStr
         THEN Raise("AttributeError")
         ELSE Ok(StrLt(lower(self.author), lower(other.author)))
     ELSE IF self.title = NoneStr \/ other.title = NoneStr
       THEN Raise("AttributeError")
     ELSE IF self_title # other_title THEN Ok(StrLt(self_title, other_title))
     ELSE IF ~RangeEq(self.page_number, other.page_number)
       THEN Ok(BigLt(self_page, other_page))
     ELSE IF ~RangeEq(self.location, other.location) THEN
       IF self_location.t # other_location.t THEN Raise("TypeError")
       ELSE IF self_location.t = "num"
         THEN Ok(BigLt(self_location.v, other_location.v))
       ELSE Ok(StrLt(self_location.v, other_location.v))
     ELSE IF self.creation_date = NoneDate \/ other.creation_date = NoneDate
       THEN Raise("TypeError")
     ELSE Ok(self.creation_date < other.creation_date)

\* Book.__lt__
Book_lt(self, other) == Ok(StrLt(self.title, other.title))

\* Author.__lt__
Author_lt(self, other) == Ok(StrLt(self.author_name, other.author_name))

\* a < b for two objects of the class cls.
lt(cls, a, b) ==
  CASE cls = "Annotation" -> Annotation_lt(a, b)
    [] cls = "Book" -> Book_lt(a, b)
    [] cls = "Author" -> Author_lt(a, b)

\* count_run of CPython's list.sort: the length of the run that starts the
\* list, negative when the run is strictly descending; or the exception.
RECURSIVE count_run(_, _, _, _)
count_run(l, cls, k, descending) ==
  IF k > Len(l) THEN Ok(k - 1)
  ELSE LET compared(c) ==
             IF IsExc(c) THEN c
             ELSE IF c.val = descending
               THEN count_run(l, cls, k + 1, descending)
             ELSE Ok(k - 1)
       IN compared(lt(cls, l[k], l[k - 1]))

\* The binary search of binarysort: the position of pivot in the sorted
\* prefix positions lo..hi-1 of l.
RECURSIVE bisect(_, _, _, _, _)
bisect(l, cls, pivot, lo, hi) ==
  IF lo >= hi THEN Ok(lo)
  ELSE LET p == lo + ((hi - lo) \div 2)
           compared(c) ==
             IF IsExc(c) THEN c
             ELSE bisect(l, cls, pivot,
                         IF c.val THEN lo ELSE p + 1,
                         IF c.val THEN p ELSE hi)
       IN compared(lt(cls, pivot, l[p]))

\* binarysort: l[1..start-1] is sorted; insert the others one by one.
RECURSIVE binarysort(_, _, _)
binarysort(l, cls, start) ==
  IF start > Len(l) THEN Ok(l)
  ELSE LET insert(pos) ==
             IF IsExc(pos) THEN pos
             ELSE binarysort(
                    SubSeq(l, 1, pos.val - 1) \o <<l[start]>>
                      \o SubSeq(l, pos.val, start - 1)
                      \o SubSeq(l, start + 1, Len(l)),
                    cls, start + 1)
       IN insert(bisect(l, cls, l[start], 1, start))

Reverse(l) == [i \in 1..Len(l) |-> l[Len(l) + 1 - i]]

\* sorted(l) for a list shorter than 64 elements (one run, then binary
\* insertion) of objects of the class cls: Ok(list) or the exception.
sorted(l, cls) ==
  IF Len(l) < 2 THEN Ok(l)
  ELSE LET run(descending, n) ==
             IF IsExc(n) THEN n
             ELSE binarysort(
                    IF descending
                      THEN Reverse(SubSeq(l, 1, n.val))
                             \o SubSeq(l, n.val + 1, Len(l))
                      ELSE l,
                    cls, n.val + 1)
           compared(first) ==
             IF IsExc(first) THEN first
             ELSE run(first.val, count_run(l, cls, 3, first.val))
       IN compared(lt(cls, l[2], l[1]))

(***************************************************************************)
(* static.py, base_org.py: timestamps                                      *)
(***************************************************************************)

\* An EmacsDateTime is its number of seconds since a fixed instant.
\* EmacsDateTime.__str__: EMACS_TIME prints the date down to the minute, here
\* the number of whole minutes between brackets.
EmacsDateTime_str(d) == <<"[">> \o IntToStr(d \div 60) \o <<"]">>

\* EmacsDateTime.org_strptime(s): Ok(date), Ok(NoneDate) or ValueError.
org_strptime(s) ==
  IF s = NoneStr \/ s = <<>> THEN Ok(NoneDate)
  ELSE IF /\ Len(s) >= 3
          /\ s[1] = "["
          /\ s[Len(s)] = "]"
          /\ \A i \in 2..(Len(s) - 1) : s[i] \in Digits
    THEN Ok(60 * DigitsToInt(SubSeq(s, 2, Len(s) - 1)))
  ELSE Raise("ValueError")

(***************************************************************************)
(* base_org.py, kindle_to_org.py: the serializer                           *)
(***************************************************************************)

\* The characters of the value of a Todo member.
TodoValue(status) ==
  CASE status = Unchecked -> <<"[", " ", "]">>
    [] status = Checked -> <<"[", "X", "]">>
    [] status = CheckStart -> <<"[", "-", "]">>
    [] status = CheckWait -> <<"[", "?", "]">>
    [] status = TodoTodo -> <<"T", "O", "D", "O">>
    [] status = Strt -> <<"S", "T", "R", "T">>
    [] status = Proj -> <<"P", "R", "O", "J">>
    [] status = Wait -> <<"W", "A", "I", "T">>
    [] status = Hold -> <<"H", "O", "L", "D">>
    [] status = Done -> <<"D", "O", "N", "E">>
    [] status = Kill -> <<"K", "I", "L", "L">>
    [] status = NoTodo -> <<>>

\* The characters of the name of an AType member.
ATypeName(atype) ==
  CASE atype = Highlight -> <<"H", "i", "g", "h", "l", "i", "g", "h", "t">>
    [] atype = Note -> <<"N", "o", "t", "e">>
    [] atype = Bookmark -> <<"B", "o", "o", "k", "m", "a", "r", "k">>

\* The property keys the program writes.
K_author == <<"a", "u", "t", "h", "o", "r">>
K_creation_date ==
  <<"c", "r", "e", "a", "t", "i", "o", "n", "_", "d", "a", "t", "e">>
K_highlight == <<"h", "i", "g", "h", "l", "i", "g", "h", "t">>
K_location == <<"l", "o", "c", "a", "t", "i", "o", "n">>
K_note == <<"n", "o", "t", "e">>
K_page == <<"p", "a", "g", "e">>
K_series == <<"s", "e", "r", "i", "e", "s">>
K_title == <<"t", "i", "t", "l", "e">>

\* Progress.__str__
Progress_str(p) ==
  <<"[">> \o IntToStr(p.num) \o <<"/">> \o IntToStr(p.denom) \o <<"]">>

\* sorted(keys): the keys of a property map in ascending str order.
RECURSIVE SortKeys(_)
SortKeys(keys) ==
  IF keys = {} THEN <<>>
  ELSE LET least == CHOOSE k \in keys : \A j \in keys \ {k} : StrLt(k, j)
       IN <<least>> \o SortKeys(keys \ {least})

\* BaseOrg.write_properties(self), as lines.  A property value is the text
\* its f-string prints, or NoneStr.
write_properties(self) ==
  LET props_sorted ==
        SortKeys({k \in DOMAIN self.properties :
                    self.properties[k] # NoneStr /\ self.properties[k] # <<>>})
  IN <<<<":", "P", "R", "O", "P", "E", "R", "T", "I", "E", "S", ":">>>>
       \o [i \in 1..Len(props_sorted) |->
             <<":">> \o upper(props_sorted[i]) \o <<":", " ">>
               \o self.properties[props_sorted[i]]]
       \o <<<<":", "E", "N", "D", ":">>>>

\* The '*' * level of a heading line.
Stars(level) == [i \in 1..level |-> "*"]

\* BaseOrg.__str__(self), as lines.
BaseOrg_str(self) ==
  LET gapped_status ==
        IF self.status # None THEN <<" ">> \o TodoValue(self.status) ELSE <<>>
      gapped_progress ==
        IF self.show_progress THEN <<" ">> \o Progress_str(self.progress)
        ELSE <<>>
      body == IF self.body # NoneStr /\ self.body # <<>>
                THEN Lines(self.body) ELSE <<>>
      first_line ==
        Stars(self.level) \o gapped_status \o <<" ">> \o self.heading
          \o gapped_progress
  IN <<first_line>> \o write_properties(self) \o body

\* The text of an f-string field for an element of a range.
RangeText(x) ==
  CASE x.t = "int" -> IntToStr(x.v)
    [] x.t = "str" -> x.v
    [] x.t = "none" -> <<"N", "o", "n", "e">>

\* bool(x) for an element of a range.
Truthy(x) ==
  ~(x.t = "none" \/ (x.t = "int" /\ x.v = 0) \/ (x.t = "str" /\ x.v = <<>>))

\* The value to_org stores under "page" or "location"; NoneStr: no store.
RangeProperty(range) ==
  IF range = NoneRange THEN NoneStr
  ELSE LET l == range[1]
           r == range[2]
       IN IF Truthy(l) /\ Truthy(r)
            THEN RangeText(l) \o <<"-">> \o RangeText(r)
          ELSE IF Truthy(l) \/ Truthy(r) THEN RangeText(l)
          ELSE NoneStr

\* d[key] = value unless skip holds.
Store(d, key, value, skip) ==
  IF skip THEN d
  ELSE [k \in (DOMAIN d) \cup {key} |-> IF k = key THEN value ELSE d[k]]

\* The copy `this` of Annotation.to_org(self, depth) before it is printed.
Annotation_this(self, depth) ==
  LET p1 == Store(self.properties, K_page, RangeProperty(self.page_number),
                  RangeProperty(self.page_number) = NoneStr)
      p2 == Store(p1, K_location, RangeProperty(self.location),
                  RangeProperty(self.location) = NoneStr)
      p3 == Store(p2, K_note, self.my_note, FALSE)
      p4 == Store(p3, K_highlight, self.selection, FALSE)
      p5 == Store(p4, K_creation_date,
                  IF self.creation_date = NoneDate
                    THEN <<"N", "o", "n", "e">>
                    ELSE EmacsDateTime_str(self.creation_date),
                  FALSE)
      p6 == Store(p5, K_title, self.title, FALSE)
      p7 == Store(p6, K_author, self.author, FALSE)
      p8 == Store(p7, K_series, self.series,
                  self.series = NoneStr \/ self.series = <<>>)
  IN [self EXCEPT
        !.properties = p8,
        !.heading = ATypeName(self.atype),
        !.level = depth]

\* Annotation.to_org(self, depth), as lines.
Annotation_to_org(self, depth) == BaseOrg_str(Annotation_this(self, depth))

\* Book.calc_progress(self)
Book_calc_progress(self) ==
  Progress(
    Cardinality({i \in 1..Len(self.annotations) :
                   self.annotations[i].status \in {Done, Checked}}),
    Len(self.annotations))

\* The text of a creation date stored in a property map by to_org.
DateProperty(d) == IF d = NoneDate THEN NoneStr ELSE EmacsDateTime_str(d)

\* super().__str__() + "\n" + children for the texts of the children, or the
\* exception of the sort or of a child.
WithChildren(this, children) ==
  IF IsExc(children) THEN children
  ELSE Ok(BaseOrg_str(this) \o JoinLines(children.val))

\* The copy `this` of Book.to_org(self, depth) before it is printed.
Book_this(self, depth) ==
  LET p1 == Store(self.properties, K_author, self.author, FALSE)
      p2 == Store(p1, K_series, self.series, FALSE)
      p3 == Store(p2, K_creation_date, DateProperty(self.creation_date), FALSE)
  IN [self EXCEPT
        !.heading = self.title,
        !.level = depth,
        !.show_progress = TRUE,
        !.properties = p3]

\* The texts of the annotations of Book.to_org, in the order of the sort.
Book_children(sorted_children, depth) ==
  IF IsExc(sorted_children) THEN sorted_children
  ELSE Ok([i \in 1..Len(sorted_children.val) |->
             Annotation_to_org(sorted_children.val[i], depth + 1)])

\* Book.to_org(self, depth), as lines, or the exception of the sort.
Book_to_org(self, depth) ==
  WithChildren(Book_this(self, depth),
               Book_children(sorted(self.annotations, "Annotation"), depth))

\* The first exception in a list of call results, or Ok of the list of the
\* returned values.
Collect(rs) ==
  IF \E i \in 1..Len(rs) : IsExc(rs[i])
    THEN rs[Least({i \in 1..Len(rs) : IsExc(rs[i])})]
    ELSE Ok([i \in 1..Len(rs) |-> rs[i].val])

\* Author.calc_progress(self): the progress it returns.
Author_calc_progress(self) ==
  LET titles == SetToSeq(DOMAIN self.books)
      RECURSIVE sum(_, _)
      sum(i, field) ==
        IF i = 0 THEN 0
        ELSE sum(i - 1, field)
               + Book_calc_progress(self.books[titles[i]])[field]
  IN Progress(sum(Len(titles), "num"), sum(Len(titles), "denom"))

\* The books of self after Author.calc_progress has stored their progress.
BooksWithProgress(self) ==
  [title \in DOMAIN self.books |->
     [self.books[title] EXCEPT
        !.progress = Book_calc_progress(self.books[title])]]

\* list(d.values()) in one iteration order.
DictValues(d) ==
  [i \in 1..Cardinality(DOMAIN d) |-> d[SetToSeq(DOMAIN d)[i]]]

\* The copy `this` of Author.to_org(self) before it is printed.
Author_this(self) ==
  [self EXCEPT
     !.level = 1,
     !.progress = Author_calc_progress(self),
     !.show_progress = TRUE,
     !.heading = self.author_name,
     !.properties = Store(self.properties, K_creation_date,
                          DateProperty(self.creation_date), FALSE)]

\* The texts of the books of Author.to_org, in the order of the sort.
Author_children(sorted_children, depth) ==
  IF IsExc(sorted_children) THEN sorted_children
  ELSE Collect([i \in 1..Len(sorted_children.val) |->
                  Book_to_org(sorted_children.val[i], depth)])

\* Author.to_org(self), as lines, or the exception.
Author_to_org(self) ==
  WithChildren(
    Author_this(self),
    \* this.level + 1 = 2
    Author_children(sorted(DictValues(BooksWithProgress(self)), "Book"), 2))

\* self after Annotation.to_org(self, depth): copy(self) is a shallow copy,
\* this.properties is the dict of self, and the stores of to_org are stores
\* into the properties of self; heading and level are set on the copy only.
Annotation_to_org_self(self, depth) ==
  [self EXCEPT !.properties = Annotation_this(self, depth).properties]

\* self after Book.to_org(self, depth): the stores into the shared dict, and
\* the annotations after their to_org unless the sort has raised.
Book_to_org_self(self, depth) ==
  [self EXCEPT
     !.properties = Book_this(self, depth).properties,
     !.annotations =
       IF IsExc(sorted(self.annotations, "Annotation")) THEN self.annotations
       ELSE [i \in 1..Len(self.annotations) |->
               Annotation_to_org_self(self.annotations[i], depth + 1)]]

\* The books of an author after Author.to_org: calc_progress has stored the
\* progress of every book, and to_org has been called on the books in the
\* order of the sort up to the first one that raises.
Author_to_org_books(books, sorted_children) ==
  IF IsExc(sorted_children) THEN books
  ELSE [title \in DOMAIN books |->
          LET n == CHOOSE i \in 1..Len(sorted_children.val) :
                     sorted_children.val[i] = books[title]
          IN IF \A j \in 1..(n - 1) :
                  ~IsExc(Book_to_org(sorted_children.val[j], 2))
               THEN Book_to_org_self(books[title], 2)
               ELSE books[title]]

\* self after Author.to_org(self)
Author_to_org_self(self) ==
  [self EXCEPT
     !.properties = Author_this(self).properties,
     !.books = Author_to_org_books(
                 BooksWithProgress(self),
                 sorted(DictValues(BooksWithProgress(self)), "Book"))]

\* "\n".join of the texts of the authors, in the order of the sort.
serialize_sorted(sorted_merged) ==
  IF IsExc(sorted_merged) THEN sorted_merged
  ELSE Collect([i \in 1..Len(sorted_merged.val) |->
                  Author_to_org(sorted_merged.val[i])])

\* "\n".join(texts), or the exception raised while the texts were made.
JoinTexts(output) ==
  IF IsExc(output) THEN output ELSE Ok(JoinLines(output.val))

\* The last statements of main before the write: the text of the outline for
\* a map of authors, as lines, or the exception.
serialize(merged_data) ==
  JoinTexts(serialize_sorted(sorted(DictValues(merged_data), "Author")))

(***************************************************************************)
(* orgparse (third-party): the node tree of an outline text                *)
(***************************************************************************)

\* The keywords orgparse takes for the todo token of a heading when the file
\* declares none.
OrgTodoKeys == {TodoTodo, Done}

\* str.splitlines(): a text that ends with a newline has no last empty line.
splitlines(lines) ==
  IF lines[Len(lines)] = <<>> THEN SubSeq(lines, 1, Len(lines) - 1) ELSE lines

\* The number of stars a line starts with.
RECURSIVE CountStars(_)
CountStars(line) ==
  IF line # <<>> /\ Head(line) = "*" THEN 1 + CountStars(Tail(line)) ELSE 0

\* A line that starts a node: stars, then a space.
IsNodeHeader(line) ==
  LET n == CountStars(line) IN n > 0 /\ Len(line) > n /\ line[n + 1] = " "

\* The todo keyword at the start of a heading, or None.
HeadingTodo(heading) ==
  IF \E k \in OrgTodoKeys :
       heading = TodoValue(k) \/ startswith(heading, TodoValue(k) \o <<" ">>)
    THEN CHOOSE k \in OrgTodoKeys :
           heading = TodoValue(k)
             \/ startswith(heading, TodoValue(k) \o <<" ">>)
    ELSE None

\* One line `:KEY: value` of a property drawer as <<key, value>>; a line that
\* is not of this shape as <<>>.
ParseProperty(line) ==
  LET l == lstrip(line)
  IN IF /\ l # <<>>
        /\ l[1] = ":"
        /\ \E i \in 2..Len(l) : l[i] = ":"
       THEN LET i == CHOOSE i \in 2..Len(l) :
                       l[i] = ":" /\ \A j \in 2..(i - 1) : l[j] # ":"
            IN <<SubSeq(l, 2, i - 1), strip(SubSeq(l, i + 1, Len(l)))>>
       ELSE <<>>

\* lines[i] contains the marker.
Contains(line, marker) ==
  \E i \in 1..(Len(line) - Len(marker) + 1) :
    SubSeq(line, i, i + Len(marker) - 1) = marker

\* "\n".join(lines) as one str.
RECURSIVE JoinStr(_)
JoinStr(lines) ==
  IF lines = <<>> THEN <<>>
  ELSE IF Len(lines) = 1 THEN lines[1]
  ELSE lines[1] \o <<"\n">> \o JoinStr(Tail(lines))

\* The node of one chunk of lines (a node header and the lines up to the next
\* one), without its children.
OrgNodeOfChunk(chunk) ==
  LET level == CountStars(chunk[1])
      text == strip(SubSeq(chunk[1], level + 1, Len(chunk[1])))
      todo == HeadingTodo(text)
      heading == IF todo = None THEN text
                 ELSE SubSeq(text, Len(TodoValue(todo)) + 2, Len(text))
      rest == Tail(chunk)
      opens == {i \in 1..Len(rest) :
                  Contains(rest[i], <<":", "P", "R", "O", "P", "E", "R", "T",
                                      "I", "E", "S", ":">>)}
      open == IF opens = {} THEN Len(rest) + 1
              ELSE CHOOSE i \in opens : \A j \in opens : i <= j
      closes == {i \in (open + 1)..Len(rest) :
                   Contains(rest[i], <<":", "E", "N", "D", ":">>)}
      close == IF closes = {} THEN Len(rest) + 1
               ELSE CHOOSE i \in closes : \A j \in closes : i <= j
      parsed == [i \in 1..(close - open - 1) |-> ParseProperty(rest[open + i])]
      keys == {parsed[i][1] : i \in {j \in 1..Len(parsed) : parsed[j] # <<>>}}
      last(k) == CHOOSE i \in 1..Len(parsed) :
                   /\ parsed[i] # <<>>
                   /\ parsed[i][1] = k
                   /\ \A j \in (i + 1)..Len(parsed) :
                        parsed[j] = <<>> \/ parsed[j][1] # k
      body_lines == SubSeq(rest, 1, open - 1) \o SubSeq(rest, close + 1, Len(rest))
  IN [level |-> level, heading |-> heading, todo |-> todo,
      properties |-> [k \in keys |-> parsed[last(k)][2]],
      body |-> JoinStr(body_lines)]

\* The positions of the node headers among the lines.
Headers(lines) == {i \in 1..Len(lines) : IsNodeHeader(lines[i])}

\* The nodes of a text in document order, without their children.
FlatNodes(lines) ==
  LET hs == Headers(lines)
      RECURSIVE from(_)
      from(i) ==
        IF i > Len(lines) THEN <<>>
        ELSE IF i \notin hs THEN from(i + 1)
        ELSE LET later == {j \in hs : j > i}
                 next == IF later = {} THEN Len(lines) + 1
                         ELSE CHOOSE j \in later : \A k \in later : j <= k
             IN <<OrgNodeOfChunk(SubSeq(lines, i, next - 1))>> \o from(next)
  IN from(1)

\* The positions of the children of the node at position i of the flat list
\* (0: the root): the nodes at the level of the node after i, up to the first
\* node of a lower level.
ChildPositions(flat, i) ==
  LET level == IF i = 0 THEN 0 ELSE flat[i].level
  IN IF i + 1 > Len(flat) \/ flat[i + 1].level <= level THEN <<>>
     ELSE LET child_level == flat[i + 1].level
              below == {j \in (i + 1)..Len(flat) : flat[j].level < child_level}
              stop == IF below = {} THEN Len(flat) + 1
                      ELSE CHOOSE j \in below : \A k \in below : j <= k
          IN SelectSeq([j \in 1..(stop - i - 1) |-> i + j],
                       LAMBDA j : flat[j].level = child_level)

\* orgparse.loads(text).children with the nodes as the three-level tree the
\* program walks: node, .children, .children.children.
org_loads(lines) ==
  LET tree(flat) ==
        LET kids(i, sub(_)) ==
              [k \in 1..Len(ChildPositions(flat, i)) |->
                 sub(ChildPositions(flat, i)[k])]
            annotation_node(i) == [node |-> flat[i], children |-> <<>>]
            book_node(i) ==
              [node |-> flat[i], children |-> kids(i, annotation_node)]
            author_node(i) ==
              [node |-> flat[i], children |-> kids(i, book_node)]
        IN kids(0, author_node)
  IN tree(IF lines = <<<<>>>> THEN <<>> ELSE FlatNodes(splitlines(lines)))

(***************************************************************************)
(* base_org.py, kindle_to_org.py: the outline parser                       *)
(***************************************************************************)

\* check_match(s) of parse_heading, for a character the pattern check_rex
\* lets through.
check_match(c) ==
  CASE c = " " -> Unchecked
    [] c = "X" -> Checked
    [] c = "?" -> CheckWait
    [] c = "-" -> CheckStart

\* The positions where check_rex, r"\[( |X|\?|-)\]", matches in s.
CheckMatches(s) ==
  {i \in 1..(Len(s) - 2) :
     s[i] = "[" /\ s[i + 1] \in {" ", "X", "?", "-"} /\ s[i + 2] = "]"}

\* The positions where progress_rex, r"\[((\d)+)?\/((\d)+)?\]", matches in s.
ProgressMatches(s) ==
  {i \in 1..Len(s) :
     /\ s[i] = "["
     /\ \E j \in (i + 1)..Len(s) :
          /\ s[j] = "/"
          /\ \A d \in (i + 1)..(j - 1) : s[d] \in Digits
          /\ \E k \in (j + 1)..Len(s) :
               /\ s[k] = "]"
               /\ \A d \in (j + 1)..(k - 1) : s[d] \in Digits}

\* s[0 : start - 1] for the match that starts at position i (from 1) of s.
BeforeProgress(s, i) ==
  IF i = 1 THEN SubSeq(s, 1, Len(s) - 1) ELSE SubSeq(s, 1, i - 2)

\* BaseOrg.parse_heading(node): Ok(<<status, heading>>), or the exception
\* raised by `return status, result_heading` when neither branch has bound
\* the local variable status.
parse_heading(node) ==
  LET stripped == strip(node.heading)
      checks == CheckMatches(stripped)
      checkbox == IF checks = {} THEN None
                  ELSE check_match(stripped[Least(checks) + 1])
      bound == node.todo # None \/ checkbox # None
      status == IF node.todo # None THEN node.todo ELSE checkbox
      result_heading == IF node.todo = None /\ checkbox # None
                          THEN strip(SubSeq(stripped, 5, Len(stripped)))
                          ELSE stripped
      progress == ProgressMatches(result_heading)
      final_heading ==
        IF progress = {} THEN result_heading
        ELSE strip(BeforeProgress(result_heading, Least(progress)))
  IN IF bound THEN Ok(<<status, final_heading>>)
     ELSE Raise("UnboundLocalError")

\* int(s) does not raise ValueError: s is, between optional whitespace, an
\* optional sign and digits with single underscores between them.
IntLiteral(s) ==
  LET t == strip(s)
      digits == IF t # <<>> /\ t[1] \in {"+", "-"} THEN Tail(t) ELSE t
  IN /\ digits # <<>>
     /\ \A i \in 1..Len(digits) : digits[i] \in Digits \cup {"_"}
     /\ digits[1] # "_" /\ digits[Len(digits)] # "_"
     /\ \A i \in 1..(Len(digits) - 1) : digits[i] # "_" \/ digits[i + 1] # "_"

\* int(s) for a str s that is an integer literal.
int(s) ==
  LET t == strip(s)
      IsDigit(c) == c \in Digits
      n == DigitsToInt(SelectSeq(t, IsDigit))
  IN IF t[1] = "-" THEN 0 - n ELSE n

\* safe_int(s) of page_or_location.
safe_int(s) == IF IntLiteral(s) THEN PyInt(int(s)) ELSE PyStr(s)

\* page_or_location that reads the first word of s where the code reads the
\* last one.
page_or_location_first_word(s) ==
  IF s = NoneStr \/ s = <<>> THEN NoneRange
  ELSE LET words == split(s, " ")
           ls == split(words[1], "-")
       IN <<safe_int(ls[1]), IF Len(ls) = 1 THEN PyNone ELSE safe_int(ls[2])>>

\* page_or_location(s)
page_or_location(s) ==
  IF s = NoneStr \/ s = <<>> THEN NoneRange
  ELSE LET words == split(s, " ")
           last == words[Len(words)]
           ls == split(last, "-")
       IN <<safe_int(ls[1]), IF Len(ls) = 1 THEN PyNone ELSE safe_int(ls[2])>>

\* dict.get(key): the value, or None.
Get(d, key) == IF key \in DOMAIN d THEN d[key] ELSE NoneStr

\* The dict without the keys.
Without(d, keys) == [k \in (DOMAIN d) \ keys |-> d[k]]

\* AType(heading): the member with this value, or ValueError.
ATypeOf(heading) ==
  IF \E a \in AType : ATypeName(a) = heading
    THEN Ok(CHOOSE a \in AType : ATypeName(a) = heading)
    ELSE Raise("ValueError")

\* The constructor call of Annotation.from_org for the status and the
\* heading, the type and the date that were read.
Annotation_from_org_fields(n, parsed, atype, creation_date) ==
  IF IsExc(parsed) THEN parsed
  ELSE IF IsExc(atype) THEN atype
  ELSE IF IsExc(creation_date) THEN creation_date
  ELSE Ok(Annotation(
            atype.val,
            Get(n.node.properties, upper(K_title)),
            Get(n.node.properties, upper(K_author)),
            Get(n.node.properties, upper(K_series)),
            parsed.val[1],
            page_or_location(Get(n.node.properties, upper(K_page))),
            page_or_location(Get(n.node.properties, upper(K_location))),
            creation_date.val,
            Get(n.node.properties, upper(K_highlight)),
            Get(n.node.properties, upper(K_note)),
            IF n.node.body # <<>> THEN n.node.body ELSE NoneStr,
            Without(n.node.properties,
                    {upper(K_title), upper(K_author), upper(K_series),
                     upper(K_creation_date), upper(K_page),
                     upper(K_location), upper(K_highlight),
                     upper(K_note)})))

\* Annotation.from_org after parse_heading.
Annotation_from_org_heading(n, parsed) ==
  Annotation_from_org_fields(
    n, parsed,
    IF IsExc(parsed) THEN parsed ELSE ATypeOf(parsed.val[2]),
    org_strptime(Get(n.node.properties, upper(K_creation_date))))

\* Annotation.from_org(node): Ok(annotation) or the exception.
Annotation_from_org(n) == Annotation_from_org_heading(n, parse_heading(n.node))

\* min(l) for a list of dates.
MinDate(l) ==
  CHOOSE d \in {l[i] : i \in 1..Len(l)} : \A i \in 1..Len(l) : d <= l[i]

\* Book._get_creation_date(annotations)
Book_get_creation_date(annotations) ==
  LET dates == SelectSeq([i \in 1..Len(annotations) |->
                            annotations[i].creation_date],
                         LAMBDA d : d # NoneDate)
  IN IF annotations = <<>> THEN Ok(NoneDate)
     ELSE IF dates = <<>> THEN Raise("ValueError")
     ELSE Ok(MinDate(dates))

\* {key.lower(): value for key, value in properties.items()}: of the keys
\* that lower to the same key, one gives its value.
LowerKeys(properties) ==
  [k \in {lower(key) : key \in DOMAIN properties} |->
     properties[CHOOSE key \in DOMAIN properties : lower(key) = k]]

\* `s.strip() if s.strip() else None`
StripOrNone(s) == IF strip(s) # <<>> THEN strip(s) ELSE NoneStr

\* The constructor call of Book.from_org for the annotations, the status and
\* the heading, and the date.
Book_from_org_fields(n, annotations, parsed, creation_date) ==
  IF IsExc(annotations) THEN annotations
  ELSE IF IsExc(parsed) THEN parsed
  ELSE IF IsExc(creation_date) THEN creation_date
  ELSE Ok(Book(
            parsed.val[2],
            Get(n.node.properties, upper(K_author)),
            Get(n.node.properties, upper(K_series)),
            annotations.val,
            creation_date.val,
            StripOrNone(n.node.body),
            parsed.val[1],
            LowerKeys(Without(n.node.properties,
                              {upper(K_author), upper(K_series)}))))

\* Book.from_org after the annotations have been read.
Book_from_org_children(n, annotations) ==
  Book_from_org_fields(
    n, annotations, parse_heading(n.node),
    IF IsExc(annotations) THEN annotations
    ELSE Book_get_creation_date(annotations.val))

\* Book.from_org(node): Ok(book) or the exception.
Book_from_org(n) ==
  Book_from_org_children(
    n, Collect([i \in 1..Len(n.children) |->
                  Annotation_from_org(n.children[i])]))

\* Author._get_creation_date(books)
Author_get_creation_date(books) ==
  LET dates == [i \in 1..Cardinality(DOMAIN books) |->
                  books[SetToSeq(DOMAIN books)[i]].creation_date]
  IN IF dates = <<>> THEN Ok(NoneDate)
     ELSE IF Len(dates) > 1 /\ \E i \in 1..Len(dates) : dates[i] = NoneDate
       THEN Raise("TypeError")
     ELSE Ok(MinDate(dates))

\* The dict built by `d[x.field] = x` for the elements x of l in order.
DictOf(l, field) ==
  [k \in {l[i][field] : i \in 1..Len(l)} |->
     l[CHOOSE i \in 1..Len(l) :
         l[i][field] = k /\ \A j \in (i + 1)..Len(l) : l[j][field] # k]]

\* The constructor call of Author.from_org for the books, the status and the
\* heading, and the date.
Author_from_org_fields(n, child_books, parsed, creation_date) ==
  IF IsExc(parsed) THEN parsed
  ELSE IF IsExc(creation_date) THEN creation_date
  ELSE Ok(Author(
            parsed.val[2],
            child_books,
            parsed.val[1],
            creation_date.val,
            StripOrNone(n.node.body),
            LowerKeys(n.node.properties)))

\* Author.from_org after the loop over the children.
Author_from_org_children(n, books) ==
  IF IsExc(books) THEN books
  ELSE Author_from_org_fields(
         n, DictOf(books.val, "title"), parse_heading(n.node),
         Author_get_creation_date(DictOf(books.val, "title")))

\* Author.from_org(node): Ok(author) or the exception.
Author_from_org(n) ==
  Author_from_org_children(
    n, Collect([i \in 1..Len(n.children) |-> Book_from_org(n.children[i])]))

\* The dict `authors` of parse_org for the list of the authors read.
parse_org_authors(authors) ==
  IF IsExc(authors) THEN authors
  ELSE Ok(DictOf(authors.val, "author_name"))

\* The loop of parse_org over the children of the root.
parse_org_children(root) ==
  parse_org_authors(
    Collect([i \in 1..Len(root) |-> Author_from_org(root[i])]))

\* parse_org(file_str), the text given by its lines: Ok(authors) or the
\* exception.
parse_org(lines) == parse_org_children(org_loads(lines))

(***************************************************************************)
(* kindle_to_org.py: the clippings parser                                  *)
(***************************************************************************)

\* KINDLE_SEPARATOR
KINDLE_SEPARATOR == <<"=", "=", "=", "=", "=", "=", "=", "=", "=", "=">>

\* KINDLE_TIME prints a date down to the second: here the words that start
\* the format, then the number of seconds.
KINDLE_TIME == <<"A", "d", "d", "e", "d", " ", "o", "n", " ">>

\* EmacsDateTime.kindle_strptime(s): Ok(date) or ValueError.
kindle_strptime(s) ==
  IF /\ startswith(s, KINDLE_TIME)
     /\ Len(s) > Len(KINDLE_TIME)
     /\ \A i \in (Len(KINDLE_TIME) + 1)..Len(s) : s[i] \in Digits
    THEN Ok(DigitsToInt(SubSeq(s, Len(KINDLE_TIME) + 1, Len(s))))
    ELSE Raise("ValueError")

\* s.split(sep) for a separator of several characters.
RECURSIVE split_str(_, _)
split_str(s, sep) ==
  LET at == {i \in 1..(Len(s) - Len(sep) + 1) :
               SubSeq(s, i, i + Len(sep) - 1) = sep}
  IN IF at = {} THEN <<s>>
     ELSE <<SubSeq(s, 1, Least(at) - 1)>>
            \o split_str(SubSeq(s, Least(at) + Len(sep), Len(s)), sep)

\* sep.join(l) for a list of str.
RECURSIVE join(_, _)
join(sep, l) ==
  IF l = <<>> THEN <<>>
  ELSE IF Len(l) = 1 THEN l[1]
  ELSE l[1] \o sep \o join(sep, Tail(l))

\* re.findall(r"\(([^\)]+)\)", s): the groups of the matches, left to right.
RECURSIVE Parenthesized(_)
Parenthesized(s) ==
  LET opens == {i \in 1..Len(s) : s[i] = "("}
  IN IF opens = {} THEN <<>>
     ELSE LET i == Least(opens)
              closes == {j \in (i + 1)..Len(s) : s[j] = ")"}
          IN IF closes = {} THEN <<>>
             ELSE IF Least(closes) = i + 1
               THEN Parenthesized(SubSeq(s, i + 1, Len(s)))
             ELSE <<SubSeq(s, i + 1, Least(closes) - 1)>>
                    \o Parenthesized(SubSeq(s, Least(closes) + 1, Len(s)))

\* get_title_author_series(s): Ok(<<title, author, series>>), or IndexError
\* when no character stands before the first parenthesis.
get_title_author_series(s) ==
  LET opens == {i \in 1..Len(s) : s[i] = "("}
      title == IF opens = {} THEN s ELSE SubSeq(s, 1, Least(opens) - 1)
      author_series == Parenthesized(s)
      author == IF Len(author_series) = 1 THEN author_series[1]
                ELSE IF Len(author_series) = 2 THEN author_series[2]
                ELSE <<"U", "n", "k", "n", "o", "w", "n">>
      series == IF Len(author_series) = 2 THEN author_series[1] ELSE NoneStr
  IN IF title = <<>> THEN Raise("IndexError")
     ELSE Ok(<<strip(title), author, series>>)

\* Annotation.from_kindle(raw_kindle), the text given by its non-empty lines:
\* Ok(annotation) or the exception.
Annotation_from_kindle(lines) ==
  IF Len(lines) < 2 THEN Raise("IndexError")
  ELSE
    LET pieces == split(lines[2], "|")
        metadata_items == [i \in 1..Len(pieces) |-> strip(pieces[i])]
        page_loc == metadata_items[1]
        tas == get_title_author_series(lines[1])
        atype == IF Contains(page_loc, ATypeName(Bookmark)) THEN Bookmark
                 ELSE IF Contains(page_loc, ATypeName(Note)) THEN Note
                 ELSE Highlight
        remaining == SubSeq(lines, 3, Len(lines))
        joined == IF remaining # <<>>
                    THEN strip(join(<<"[", " ", "|", "n", "|", " ", "]">>,
                                    remaining))
                    ELSE NoneStr
        my_note == IF atype = Note THEN joined ELSE NoneStr
        selection == IF atype = Highlight THEN joined ELSE NoneStr
        has_location ==
          Contains(page_loc, <<"L", "o", "c", "a", "t", "i", "o", "n">>)
        has_page == Contains(page_loc, <<"p", "a", "g", "e">>)
        creation_date ==
          IF Len(metadata_items) = 2 THEN kindle_strptime(metadata_items[2])
          ELSE IF Len(metadata_items) >= 3
            THEN kindle_strptime(metadata_items[3])
          ELSE Ok(NoneDate)
        page_number ==
          IF Len(metadata_items) = 2 /\ ~has_location /\ has_page
            THEN page_or_location(page_loc)
          ELSE IF Len(metadata_items) >= 3 THEN page_or_location(page_loc)
          ELSE NoneRange
        location ==
          IF Len(metadata_items) = 2 /\ has_location
            THEN page_or_location(page_loc)
          ELSE IF Len(metadata_items) >= 3
            THEN page_or_location(metadata_items[2])
          ELSE NoneRange
    IN IF IsExc(tas) THEN tas
       ELSE IF IsExc(creation_date) THEN creation_date
       ELSE IF creation_date.val = NoneDate THEN Raise("Exception")
       ELSE Ok(Annotation(atype, tas.val[1], tas.val[2], tas.val[3],
                          Unchecked, page_number, location,
                          creation_date.val, selection, my_note, NoneStr,
                          NoProperties))

\* merge_note_with_highlight without the comparison of the locations.
merge_note_any_location(self, previous) ==
  IF /\ previous # <<>>
     /\ self.atype = Highlight
     /\ previous[1].atype = Note
     /\ self.title = previous[1].title
    THEN <<TRUE, [self EXCEPT !.my_note = previous[1].my_note,
                              !.atype = Note]>>
    ELSE <<FALSE, self>>

\* Annotation.merge_note_with_highlight(self, previous), previous given as
\* <<>> (None) or <<annotation>>: <<is_collated, self afterwards>>.
merge_note_with_highlight(self, previous) ==
  IF /\ previous # <<>>
     /\ self.atype = Highlight
     /\ previous[1].atype = Note
     /\ self.title = previous[1].title
     /\ self.location # NoneRange
     /\ previous[1].location # NoneRange
     /\ PyEq(self.location[2], previous[1].location[1])
    THEN <<TRUE, [self EXCEPT !.my_note = previous[1].my_note,
                              !.atype = Note]>>
    ELSE <<FALSE, self>>

\* Annotation(): every field at its default.
DefaultAnnotation ==
  Annotation(Bookmark, <<>>, <<>>, NoneStr, None, NoneRange, NoneRange,
             NoneDate, NoneStr, NoneStr, NoneStr, NoProperties)

\* The local variables of parse_kindle after its loop has visited the first
\* n of the annotations read from the sections.
RECURSIVE collate(_, _)
collate(annotations, n) ==
  IF n = 0
    THEN [results |-> <<>>, prev |-> <<>>, curr_already_added |-> FALSE,
          annotation |-> DefaultAnnotation]
  ELSE LET s == collate(annotations, n - 1)
           m == merge_note_with_highlight(annotations[n], s.prev)
       IN IF ~m[1]
            THEN [results |-> IF s.prev # <<>> /\ ~s.curr_already_added
                                THEN Append(s.results, s.prev[1])
                                ELSE s.results,
                  prev |-> <<m[2]>>,
                  curr_already_added |-> FALSE,
                  annotation |-> m[2]]
            ELSE [results |-> Append(s.results, m[2]),
                  prev |-> s.prev,
                  curr_already_added |-> TRUE,
                  annotation |-> m[2]]

\* itertools.groupby(results, title): the runs of consecutive annotations
\* that have the same title.
RECURSIVE groupby(_)
groupby(results) ==
  IF results = <<>> THEN <<>>
  ELSE LET n == CHOOSE k \in 1..Len(results) :
                  /\ \A i \in 1..k : results[i].title = results[1].title
                  /\ k = Len(results) \/ results[k + 1].title # results[1].title
       IN <<SubSeq(results, 1, n)>>
            \o groupby(SubSeq(results, n + 1, Len(results)))

\* The dict `authors` of parse_kindle for the list `books`, before the
\* creation dates of the authors are set.
parse_kindle_authors(books) ==
  [name \in {books[i].author : i \in 1..Len(books)} |->
     Author(name,
            DictOf(SelectSeq(books, LAMBDA book : book.author = name),
                   "title"),
            None, NoneDate, NoneStr, NoProperties)]

\* The last loop of parse_kindle for the dates of the authors.
parse_kindle_dated(authors, dates) ==
  IF IsExc(dates) THEN dates
  ELSE Ok([name \in DOMAIN authors |->
             [authors[name] EXCEPT !.creation_date = dates.val[name]]])

\* parse_kindle after the books have been made.
parse_kindle_books(authors) ==
  parse_kindle_dated(
    authors,
    CollectDict([name \in DOMAIN authors |->
                   Author_get_creation_date(authors[name].books)]))

\* parse_kindle after groupby, with the creation dates of the books.
parse_kindle_groups(groups, dates) ==
  IF IsExc(dates) THEN dates
  ELSE parse_kindle_books(
         parse_kindle_authors(
           [i \in 1..Len(groups) |->
              Book(groups[i][1].title, groups[i][1].author,
                   groups[i][1].series, groups[i], dates.val[i], NoneStr,
                   None, NoProperties)]))

\* parse_kindle after results.sort().
parse_kindle_sorted(results) ==
  IF IsExc(results) THEN results
  ELSE parse_kindle_groups(
         groupby(results.val),
         Collect([i \in 1..Len(groupby(results.val)) |->
                    Book_get_creation_date(groupby(results.val)[i])]))

\* The list `results` of parse_kindle after "Take care of the last one":
\* is_collated is False after every pass of the loop, so the record of the
\* last section (or the default record, without sections) is appended.
parse_kindle_flushed(last) == Append(last.results, last.annotation)

\* parse_kindle after its first loop.
parse_kindle_collated(last) ==
  parse_kindle_sorted(sorted(parse_kindle_flushed(last), "Annotation"))

\* parse_kindle after from_kindle has read the sections.
parse_kindle_read(annotations) ==
  IF IsExc(annotations) THEN annotations
  ELSE parse_kindle_collated(collate(annotations.val, Len(annotations.val)))

\* The records from_kindle returns for the sections, all but the last piece
\* of the split, or its first exception.
parse_kindle_annotations(pieces) ==
  Collect([i \in 1..(Len(pieces) - 1) |->
             Annotation_from_kindle(
               SelectSeq(Lines(pieces[i]), LAMBDA l : l # <<>>))])

\* parse_kindle after the split of the text.
parse_kindle_sections(pieces) ==
  parse_kindle_read(parse_kindle_annotations(pieces))

\* parse_kindle(file_str), the text given by its lines: Ok(authors) or the
\* exception.
parse_kindle(lines) ==
  parse_kindle_sections(split_str(JoinStr(lines), KINDLE_SEPARATOR))

\* main after merge_files: the text it writes, or the exception.
main_merged(merged_data) ==
  IF IsExc(merged_data) THEN merged_data ELSE serialize(merged_data.val)

\* main after parse_org and parse_kindle.
main_parsed(org_data, kindle_data) ==
  IF IsExc(org_data) THEN org_data
  ELSE IF IsExc(kindle_data) THEN kindle_data
  ELSE main_merged(merge_files(org_data.val, kindle_data.val))

\* The statements of main from parse_org to the text it writes: Ok(output, as
\* lines) or the exception.
main_output(org_string, kindle_string) ==
  main_parsed(parse_org(org_string), parse_kindle(kindle_string))

\* main that opens the outline file for writing before it computes the
\* output: an exception leaves the file empty.
main_written_early(org_file_text, output) ==
  IF IsExc(output) THEN <<<<>>>> ELSE output.val

\* The text of the outline file after main: `open(org_file, "w")` and the
\* write are the last statements, so an exception before them leaves the
\* file as it was.
main_written(org_file_text, output) ==
  IF IsExc(output) THEN org_file_text ELSE output.val

(***************************************************************************)
(* The inputs of the model                                                 *)
(***************************************************************************)

\* The largest location of a sample annotation.
MaxLocation == 2

\* The largest number of annotations of a sample book.
MaxAnnotations == 2

Poe == <<"P", "o", "e">>
Lee == <<"L", "e", "e">>
AuthorNames == {Poe, Lee}

Emma == <<"E", "m", "m", "a">>
Ubik == <<"U", "b", "i", "k">>
BookTitles == {Emma, Ubik}

\* A highlight at location loc, added at minute loc.
SampleAnnotation(title, author, loc, status, body) ==
  Annotation(Highlight, title, author, NoneStr, status, NoneRange,
             <<PyInt(loc), PyNone>>, 60 * loc, <<"h", "i">>, NoneStr, body,
             NoProperties)

\* The annotation lists of a book: locations ascending, each at most once.
AnnotationLists(title, author, statuses, bodies, max) ==
  LET annotations ==
        {SampleAnnotation(title, author, loc, st, body) :
           loc \in 1..MaxLocation, st \in statuses, body \in bodies}
      RECURSIVE lists(_)
      lists(n) ==
        IF n = 0 THEN {<<>>}
        ELSE lists(n - 1)
               \cup {Append(l, a) :
                       l \in {m \in lists(n - 1) : Len(m) = n - 1},
                       a \in annotations}
  IN {l \in lists(max) :
        \A i \in 1..(Len(l) - 1) :
          l[i].location[1].v < l[i + 1].location[1].v}

\* The date of a book or an author: the least date of its children.
LeastDate(dates) ==
  IF dates = {} THEN NoneDate ELSE CHOOSE d \in dates : \A e \in dates : d <= e

SampleBook(title, author, annotations, status) ==
  Book(title, author, NoneStr, annotations,
       LeastDate({annotations[i].creation_date : i \in 1..Len(annotations)}),
       NoneStr, status, NoProperties)

\* The books Book.merge is applied to.
SampleBooks(title, author) ==
  {SampleBook(title, author, l, st) :
     l \in AnnotationLists(title, author, {Unchecked, Done},
                           {NoneStr, <<"o", "k">>}, MaxAnnotations),
     st \in {None, Checked}}

\* The books of the sample authors.
SmallBooks(title, author, statuses) ==
  {SampleBook(title, author, l, st) :
     l \in AnnotationLists(title, author, {Unchecked, Done}, {NoneStr}, 1),
     st \in statuses}

SampleAuthor(name, books, status) ==
  Author(name, books,
         status,
         LeastDate({books[t].creation_date : t \in DOMAIN books} \ {NoneDate}),
         NoneStr, NoProperties)

\* The maps m from some of the keys with m[k] in vals[k].
PartialMaps(keys, vals) ==
  UNION {{m \in [ks -> UNION {vals[k] : k \in ks}] :
            \A k \in ks : m[k] \in vals[k]} :
         ks \in SUBSET keys}

\* The authors Author.merge is applied to.
SampleAuthors(name) ==
  {SampleAuthor(name, books, st) :
     books \in PartialMaps(BookTitles,
                           [t \in BookTitles |->
                              SmallBooks(t, name, {None, Checked})]),
     st \in {None, Checked}}

\* The author maps merge_files is applied to: every book has the first
\* title, and its status is the one of its author.
SampleMaps ==
  PartialMaps(AuthorNames,
              [n \in AuthorNames |->
                 UNION {{SampleAuthor(n, books, st) :
                           books \in PartialMaps({Emma},
                                       [t \in {Emma} |->
                                          SmallBooks(t, n, {st})])} :
                        st \in {None, Checked}}])

\* The largest number of sections of a sample clippings file.
MaxSections == 2

\* One section of a clippings file, as lines: the title and the author, the
\* metadata, an empty line, the text.
SampleSection(kind, title, author, location, seconds) ==
  <<title \o <<" ", "(">> \o author \o <<")">>,
    <<"-", " ", "Y", "o", "u", "r", " ">> \o ATypeName(kind)
      \o <<" ", "o", "n", " ", "L", "o", "c", "a", "t", "i", "o", "n", " ">>
      \o location \o <<" ", "|", " ">> \o KINDLE_TIME \o IntToStr(seconds),
    <<>>,
    <<"h", "i">>>>

\* Notes at the locations n and highlights of the locations 1 to n, of the
\* two books.
SampleSections ==
  UNION {{SampleSection(Note, b[1], b[2], IntToStr(n), 61 * n),
          SampleSection(Highlight, b[1], b[2],
                        <<"1", "-">> \o IntToStr(n), 61 * n + 1)} :
         n \in 1..MaxLocation, b \in {<<Emma, Poe>>, <<Ubik, Lee>>}}

\* The text of a clippings file: every section is followed by a line with
\* the separator, and the text ends with a newline.
RECURSIVE ClippingsText(_)
ClippingsText(sections) ==
  IF sections = <<>> THEN <<<<>>>>
  ELSE Head(sections) \o <<KINDLE_SEPARATOR>> \o ClippingsText(Tail(sections))

SampleClippings ==
  {ClippingsText(l) :
     l \in UNION {[1..n -> SampleSections] : n \in 0..MaxSections}}

\* Longer clippings files of one book: MaxSections + 1 sections, each a note
\* at the last location or a highlight that ends there, added one second
\* after the other.
LongClippings ==
  {ClippingsText(
     [k \in 1..(MaxSections + 1) |->
        SampleSection(kinds[k], Emma, Poe,
                      IF kinds[k] = Note
                        THEN IntToStr(MaxLocation)
                        ELSE <<"1", "-">> \o IntToStr(MaxLocation),
                      600 + k)]) :
     kinds \in [1..(MaxSections + 1) -> {Note, Highlight}]}

\* Clippings files of MaxSections + 1 highlights, the k-th at location k: the
\* title with or without a leading article, of either author.
TitleClippings ==
  {ClippingsText(
     [k \in 1..(MaxSections + 1) |->
        SampleSection(Highlight, books[k][1], books[k][2], IntToStr(k),
                      600 + k)]) :
     books \in [1..(MaxSections + 1) ->
                  {Emma, <<"t", "h", "e", " ">> \o Emma} \X AuthorNames]}

\* The files a run can be given with -m: any sample file when there is no
\* clippings file yet, later the clippings file with one more section (the
\* device appends to its file).
MountedFiles(current) ==
  IF current = NoFile THEN SampleClippings
  ELSE {k \in SampleClippings :
          /\ Len(k) = Len(current) + 5
          /\ SubSeq(k, 1, Len(current) - 1)
               = SubSeq(current, 1, Len(current) - 1)}

\* The locations of the sample records: none, one location, a range.
SampleLocations ==
  {NoneRange}
    \cup {<<PyInt(a), PyNone>> : a \in 1..MaxLocation}
    \cup {<<PyInt(r[1]), PyInt(r[2])>> :
            r \in {x \in (1..MaxLocation) \X (1..MaxLocation) : x[1] <= x[2]}}

\* A record as from_kindle returns it: a note has a text, a highlight has a
\* selection, and the date tells the kinds apart.
SampleRecord(kind, title, author, location) ==
  Annotation(kind, title, author, NoneStr, Unchecked, NoneRange, location,
             CASE kind = Note -> 61 [] kind = Highlight -> 122 [] OTHER -> 183,
             IF kind = Highlight THEN <<"s">> ELSE NoneStr,
             IF kind = Note THEN <<"n">> ELSE NoneStr,
             NoneStr, NoProperties)

SampleRecords ==
  {SampleRecord(kind, b[1], b[2], location) :
     kind \in AType, b \in {<<Emma, Poe>>, <<Ubik, Lee>>},
     location \in SampleLocations}

\* The property drawer of an outline node with the given lines.
Drawer(properties) ==
  <<<<":", "P", "R", "O", "P", "E", "R", "T", "I", "E", "S", ":">>>>
    \o properties \o <<<<":", "E", "N", "D", ":">>>>

\* One line `:KEY: value` of a drawer.
PropertyLine(key, value) == <<":">> \o upper(key) \o <<":", " ">> \o value

\* The headings of the sample nodes, each with and without the keyword TODO:
\* a kind alone, a kind after a checkbox, and a kind after a token of the
\* shape of a checkbox with another character in it.
SampleHeadings ==
  {prefix \o box \o ATypeName(Note) :
     prefix \in {<<>>, <<"T", "O", "D", "O", " ">>},
     box \in {<<>>, <<"[", " ", "]", " ">>, <<"[", "X", "]", " ">>,
              <<"[", "z", "]", " ">>}}

\* The texts of CREATION_DATE in the sample outlines: a date, a text that is
\* no date, and None for a drawer without the property.
SampleDates == {<<"[", "2", "]">>, <<"x">>, NoneStr}

\* The text of an outline, as lines: the author Poe with the book Emma, a
\* highlight at location 1 added at minute 1, and a second annotation at
\* location 2 with the given heading and creation date.
SampleOutline(author_status, heading, date) ==
  <<<<"*", " ">> \o author_status \o Poe>>
    \o Drawer(<<>>)
    \o <<<<"*", "*", " ", "[", " ", "]", " ">> \o Emma>>
    \o Drawer(<<PropertyLine(K_author, Poe)>>)
    \o <<<<"*", "*", "*", " ", "[", " ", "]", " ">> \o ATypeName(Highlight)>>
    \o Drawer(<<PropertyLine(K_author, Poe),
                PropertyLine(K_creation_date, <<"[", "1", "]">>),
                PropertyLine(K_location, <<"1">>),
                PropertyLine(K_title, Emma)>>)
    \o <<<<"*", "*", "*", " ">> \o heading>>
    \o Drawer(<<PropertyLine(K_author, Poe)>>
                \o (IF date = NoneStr THEN <<>>
                    ELSE <<PropertyLine(K_creation_date, date)>>)
                \o <<PropertyLine(K_location, <<"2">>),
                     PropertyLine(K_title, Emma)>>)

\* The outline texts parse_org is applied to: the empty text and the sample
\* outlines.
SampleOutlines ==
  {<<<<>>>>}
    \cup {SampleOutline(author_status, heading, date) :
            author_status \in {<<>>, <<"[", "X", "]", " ">>},
            heading \in SampleHeadings, date \in SampleDates}

\* The largest number of parenthesized groups of a sample title line.
MaxGroups == 3

\* The first lines of the sample sections: no title, a title, a title and a
\* space, then up to MaxGroups groups in parentheses with a space between.
SampleTitleLines ==
  {title \o join(<<" ">>, [i \in 1..Len(groups) |->
                               <<"(">> \o groups[i] \o <<")">>]) :
     title \in {<<>>, Emma, Emma \o <<" ">>},
     groups \in UNION {[1..n -> {Poe, Lee}] : n \in 0..MaxGroups}}

\* The largest number of sides of the last word of a sample place.
MaxSides == 3

\* The texts page_or_location is applied to: no text, the empty text, and up
\* to two words before sides that are joined by "-"; a side is a number, a
\* number with zeros before it, a roman numeral or empty.
SamplePlaces ==
  {NoneStr, <<>>}
    \cup {words \o join(<<"-">>, sides) :
            words \in {<<>>, <<"p", "a", "g", "e", " ">>,
                       <<"o", "n", " ", "7", "-", "8", " ">>},
            sides \in UNION {[1..n -> {<<"1", "2">>, <<"0", "0", "7">>,
                                       <<"i", "v">>, <<>>}] :
                             n \in 1..MaxSides}}

\* The largest length of a sample numeral.
MaxNumeral == 3

\* The texts roman_to_float is applied to: up to MaxNumeral letters, of which
\* "j" is no roman digit.
SampleNumerals ==
  UNION {[1..n -> {"i", "V", "x", "j"}] : n \in 1..MaxNumeral}

\* The entities _org_merge is applied to: no status, an open or a closed
\* one; no body, a body, the same body in whitespace, or another body; and
\* up to two properties.
SampleEntities ==
  {[DefaultAnnotation EXCEPT
      !.status = status, !.body = body, !.properties = properties] :
     status \in {None, Unchecked, Done},
     body \in {NoneStr, <<"a">>, <<" ", "a", "\n">>, <<"b">>},
     properties \in PartialMaps({<<"k">>, <<"l">>},
                                [k \in {<<"k">>, <<"l">>} |->
                                   IF k = <<"k">> THEN {<<"v">>, <<"w">>}
                                   ELSE {<<"v">>}])}

\* The property maps write_properties is applied to: keys in lower and in
\* upper case, with a text, the empty text or None as value.
SampleProperties ==
  PartialMaps({<<"a">>, <<"B">>, <<"c">>},
              [k \in {<<"a">>, <<"B">>, <<"c">>} |-> {<<"v">>, <<>>, NoneStr}])

\* The hierarchies that are serialized: the sample maps and what
\* parse_kindle returns for the sample clippings.
SampleHierarchies ==
  SampleMaps
    \cup {r.val : r \in {x \in {parse_kindle(k) : k \in SampleClippings} :
                            ~IsExc(x)}}

(***************************************************************************)
(* Specifications: one call of an operation on inputs of the sample sets   *)
(***************************************************************************)

Init ==
  /\ pc = "idle"
  /\ args = <<>>
  /\ ret = <<>>
  /\ kindle_file = NoFile
  /\ org_file = NoFile

\* a._merge(b) for two members of Todo.
TodoMergeCall ==
  /\ pc = "idle"
  /\ \E a \in Todo, b \in Todo :
       /\ args' = <<a, b>>
       /\ ret' = Todo_merge(a, b)
  /\ pc' = "Todo._merge"
  /\ UNCHANGED <<kindle_file, org_file>>

NextTodo == TodoMergeCall

SpecTodo == Init /\ [][NextTodo]_vars

\* self.merge(other) for two books of one title and author.
BookMergeCall ==
  /\ pc = "idle"
  /\ \E self \in SampleBooks(Emma, Poe), other \in SampleBooks(Emma, Poe) :
       /\ args' = <<self, other>>
       /\ ret' = Book_merge(self, other)
  /\ pc' = "Book.merge"
  /\ UNCHANGED <<kindle_file, org_file>>

\* self.merge(other) for two authors of one name.
AuthorMergeCall ==
  /\ pc = "idle"
  /\ \E self \in SampleAuthors(Poe), other \in SampleAuthors(Poe) :
       /\ args' = <<self, other>>
       /\ ret' = Author_merge(self, other)
  /\ pc' = "Author.merge"
  /\ UNCHANGED <<kindle_file, org_file>>

\* merge_files(left, right)
MergeFilesCall ==
  /\ pc = "idle"
  /\ \E left \in SampleMaps, right \in SampleMaps :
       /\ args' = <<left, right>>
       /\ ret' = merge_files(left, right)
  /\ pc' = "merge_files"
  /\ UNCHANGED <<kindle_file, org_file>>

\* hash(self) for a sample record, a sample book or a sample author.
HashCall ==
  /\ pc = "idle"
  /\ \/ \E self \in SampleRecords :
          args' = <<"Annotation", self>> /\ ret' = hash("Annotation", self)
     \/ \E self \in SampleBooks(Emma, Poe) :
          args' = <<"Book", self>> /\ ret' = hash("Book", self)
     \/ \E self \in SampleAuthors(Poe) :
          args' = <<"Author", self>> /\ ret' = hash("Author", self)
  /\ pc' = "hash"
  /\ UNCHANGED <<kindle_file, org_file>>

\* self._org_merge(other) for two sample entities: self and other afterwards.
OrgMergeCall ==
  /\ pc = "idle"
  /\ \E self \in SampleEntities, other \in SampleEntities :
       /\ args' = <<self, other>>
       /\ ret' = <<BaseOrg_org_merge(self, other), other>>
  /\ pc' = "_org_merge"
  /\ UNCHANGED <<kindle_file, org_file>>

\* self._org_merge(other) once more, with the same other.
OrgMergeAgainCall ==
  /\ pc = "_org_merge"
  /\ args' = ret
  /\ ret' = <<BaseOrg_org_merge(ret[1], ret[2]), ret[2]>>
  /\ pc' = "_org_merge again"
  /\ UNCHANGED <<kindle_file, org_file>>

NextMerge ==
  \/ BookMergeCall
  \/ AuthorMergeCall
  \/ MergeFilesCall
  \/ HashCall
  \/ OrgMergeCall
  \/ OrgMergeAgainCall

SpecMerge == Init /\ [][NextMerge]_vars

\* main(argv) with -k and -o, and with -m for a file of MountedFiles or
\* without it: copy the mounted file, read both files, write the outline.  An
\* exception leaves the outline file as it was.
MainCall ==
  /\ pc \in {"idle", "main"}
  /\ \E mounted_file \in MountedFiles(kindle_file) \cup {NoFile} :
       LET kindle_string ==
             IF mounted_file # NoFile THEN mounted_file ELSE kindle_file
           org_string == IF org_file = NoFile THEN <<<<>>>> ELSE org_file
       IN \E output \in {IF kindle_string = NoFile THEN Raise("SystemExit")
                          ELSE main_output(org_string, kindle_string)} :
            /\ kindle_file' = kindle_string
            /\ args' = <<org_file, kindle_string>>
            /\ ret' = IF IsExc(output) THEN output ELSE Ok(None)
            /\ org_file' = main_written(org_file, output)
  /\ pc' = "main"

NextMain == MainCall

SpecMain == Init /\ [][NextMain]_vars

\* The last statements of main on a sample hierarchy, or on the hierarchy
\* parse_org has returned.
SerializeCall ==
  /\ pc \in {"idle", "parse_org"}
  /\ \E merged_data \in IF pc = "idle" THEN SampleHierarchies
                         ELSE IF IsExc(ret) THEN {}
                         ELSE {ret.val} :
       /\ args' = <<merged_data>>
       /\ ret' = serialize(merged_data)
  /\ pc' = "serialize"
  /\ UNCHANGED <<kindle_file, org_file>>

\* parse_org on the text that was serialized.
ParseOrgCall ==
  /\ pc = "serialize"
  /\ ~IsExc(ret)
  /\ args' = <<ret.val>>
  /\ ret' = parse_org(ret.val)
  /\ pc' = "parse_org"
  /\ UNCHANGED <<kindle_file, org_file>>

\* annotation.to_org(depth) for a sample record at the depth of main.
AnnotationToOrgCall ==
  /\ pc = "idle"
  /\ \E self \in SampleRecords :
       /\ args' = <<self, 3>>
       /\ ret' = [text |-> Ok(Annotation_to_org(self, 3)),
                  self |-> Annotation_to_org_self(self, 3)]
  /\ pc' = "Annotation.to_org"
  /\ UNCHANGED <<kindle_file, org_file>>

\* book.to_org(depth) for a sample book at the depth of main.
BookToOrgCall ==
  /\ pc = "idle"
  /\ \E self \in SampleBooks(Emma, Poe) :
       /\ args' = <<self, 2>>
       /\ ret' = [text |-> Book_to_org(self, 2),
                  self |-> Book_to_org_self(self, 2)]
  /\ pc' = "Book.to_org"
  /\ UNCHANGED <<kindle_file, org_file>>

\* author.to_org() for a sample author.
AuthorToOrgCall ==
  /\ pc = "idle"
  /\ \E self \in SampleAuthors(Poe) :
       /\ args' = <<self>>
       /\ ret' = [text |-> Author_to_org(self),
                  self |-> Author_to_org_self(self)]
  /\ pc' = "Author.to_org"
  /\ UNCHANGED <<kindle_file, org_file>>

NextOutline ==
  \/ SerializeCall
  \/ ParseOrgCall
  \/ AnnotationToOrgCall
  \/ BookToOrgCall
  \/ AuthorToOrgCall

SpecOutline == Init /\ [][NextOutline]_vars

\* self.merge_note_with_highlight(previous) for a record and the record
\* before it, or None.
MergeNoteCall ==
  /\ pc = "idle"
  /\ \E self \in SampleRecords,
        previous \in {<<>>} \cup {<<a>> : a \in SampleRecords} :
       /\ args' = <<self, previous>>
       /\ ret' = merge_note_with_highlight(self, previous)
  /\ pc' = "merge_note_with_highlight"
  /\ UNCHANGED <<kindle_file, org_file>>

\* parse_kindle(file_str) for the text of a clippings file.
ParseKindleCall ==
  /\ pc = "idle"
  /\ \E file_str \in SampleClippings \cup LongClippings \cup TitleClippings :
       /\ args' = <<file_str>>
       /\ ret' = parse_kindle(file_str)
  /\ pc' = "parse_kindle"
  /\ UNCHANGED <<kindle_file, org_file>>

\* parse_org(file_str) for the text of an outline.
ParseOrgTextCall ==
  /\ pc = "idle"
  /\ \E file_str \in SampleOutlines :
       /\ args' = <<file_str>>
       /\ ret' = parse_org(file_str)
  /\ pc' = "parse_org"
  /\ UNCHANGED <<kindle_file, org_file>>

\* self < other for two records.
AnnotationLtCall ==
  /\ pc = "idle"
  /\ \E self \in SampleRecords, other \in SampleRecords :
       /\ args' = <<self, other>>
       /\ ret' = Annotation_lt(self, other)
  /\ pc' = "Annotation.__lt__"
  /\ UNCHANGED <<kindle_file, org_file>>

\* self.write_properties() for an entity with a sample property map.
WritePropertiesCall ==
  /\ pc = "idle"
  /\ \E properties \in SampleProperties :
       /\ args' = <<[DefaultAnnotation EXCEPT !.properties = properties]>>
       /\ ret' = write_properties(
                   [DefaultAnnotation EXCEPT !.properties = properties])
  /\ pc' = "write_properties"
  /\ UNCHANGED <<kindle_file, org_file>>

\* Annotation.from_org(node) for the second annotation node of a sample
\* outline.
AnnotationFromOrgCall ==
  /\ pc = "idle"
  /\ \E file_str \in SampleOutlines \ {<<<<>>>>} :
       /\ args' = <<org_loads(file_str)[1].children[1].children[2]>>
       /\ ret' = Annotation_from_org(
                   org_loads(file_str)[1].children[1].children[2])
  /\ pc' = "Annotation.from_org"
  /\ UNCHANGED <<kindle_file, org_file>>

\* BaseOrg.parse_heading(node) for the second annotation node of a sample
\* outline.
ParseHeadingCall ==
  /\ pc = "idle"
  /\ \E file_str \in SampleOutlines \ {<<<<>>>>} :
       /\ args' = <<org_loads(file_str)[1].children[1].children[2].node>>
       /\ ret' = parse_heading(
                   org_loads(file_str)[1].children[1].children[2].node)
  /\ pc' = "parse_heading"
  /\ UNCHANGED <<kindle_file, org_file>>

\* get_title_author_series(s) for the first line of a section.
TitleCall ==
  /\ pc = "idle"
  /\ \E s \in SampleTitleLines :
       /\ args' = <<s>>
       /\ ret' = get_title_author_series(s)
  /\ pc' = "get_title_author_series"
  /\ UNCHANGED <<kindle_file, org_file>>

\* page_or_location(s) for a sample place.
PageOrLocationCall ==
  /\ pc = "idle"
  /\ \E s \in SamplePlaces :
       /\ args' = <<s>>
       /\ ret' = page_or_location(s)
  /\ pc' = "page_or_location"
  /\ UNCHANGED <<kindle_file, org_file>>

\* roman_to_float(s) for a small integer or a sample numeral.
RomanToFloatCall ==
  /\ pc = "idle"
  /\ \/ \E n \in 0..MaxNumeral :
          /\ args' = <<PyInt(n)>>
          /\ ret' = roman_to_float(PyInt(n))
     \/ \E s \in SampleNumerals :
          /\ args' = <<PyStr(s)>>
          /\ ret' = roman_to_float(PyStr(s))
  /\ pc' = "roman_to_float"
  /\ UNCHANGED <<kindle_file, org_file>>

NextParse ==
  \/ MergeNoteCall
  \/ TitleCall
  \/ ParseHeadingCall
  \/ AnnotationFromOrgCall
  \/ WritePropertiesCall
  \/ ParseKindleCall
  \/ ParseOrgTextCall
  \/ AnnotationLtCall
  \/ PageOrLocationCall
  \/ RomanToFloatCall

SpecParse == Init /\ [][NextParse]_vars

(***************************************************************************)
(* Properties                                                              *)
(***************************************************************************)

\* The annotations of an author map as <<name, title, annotation>>.
AnnotationsOf(m) ==
  UNION {UNION {{<<n, t, m[n].books[t].annotations[i]>> :
                   i \in DOMAIN m[n].books[t].annotations} :
                t \in DOMAIN m[n].books} :
         n \in DOMAIN m}

\* Every author name and book title of left also occurs in right.
Covers(right, left) ==
  \A n \in DOMAIN left :
    /\ n \in DOMAIN right
    /\ DOMAIN left[n].books \subseteq DOMAIN right[n].books

\* A state a parsed outline can be: every author and book has a status.
IsOutlineState(m) ==
  \A n \in DOMAIN m :
    /\ m[n].status # None
    /\ \A t \in DOMAIN m[n].books : m[n].books[t].status # None

\* The progression order of the status markers, earliest first.
Progression ==
  <<NoTodo, Unchecked, CheckStart, CheckWait, Checked, TodoTodo, Strt, Proj,
    Wait, Hold, Done, Kill>>
Rank(status) == index(Progression, IF status = None THEN NoTodo ELSE status)

CheckboxStates == {Unchecked, Checked, CheckStart, CheckWait}
KeywordStates == {TodoTodo, Strt, Proj, Wait, Hold, Done, Kill, NoTodo}

\* Two annotations with the same coarse identity, status, body text and
\* properties.
SameAnnotation(a, b) ==
  /\ Annotation_eq(a, b)
  /\ a.status = b.status
  /\ strip(OrEmpty(a.body)) = strip(OrEmpty(b.body))
  /\ a.properties = b.properties

\* Two author maps with the same names, titles and annotations.
SameState(m, x) ==
  /\ DOMAIN m = DOMAIN x
  /\ \A n \in DOMAIN x :
       /\ DOMAIN m[n].books = DOMAIN x[n].books
       /\ \A t \in DOMAIN x[n].books :
            LET ma == m[n].books[t].annotations
                xa == x[n].books[t].annotations
            IN /\ Len(ma) = Len(xa)
               /\ \A i \in DOMAIN xa :
                    \E j \in DOMAIN ma : SameAnnotation(ma[j], xa[i])

\* The entities of an outline text: one record (level, heading, todo keyword,
\* properties, body) for every headline, in the order of the text.
Entities(text) ==
  IF text = <<<<>>>> THEN <<>> ELSE FlatNodes(splitlines(text))

\* Two outline texts with the same entities, each the same number of times.
SameEntities(a, b) ==
  LET ea == Entities(a)
      eb == Entities(b)
      count(l, e) == Cardinality({i \in 1..Len(l) : l[i] = e})
  IN /\ \A i \in 1..Len(ea) : count(ea, ea[i]) = count(eb, ea[i])
     /\ \A i \in 1..Len(eb) : count(ea, eb[i]) = count(eb, eb[i])

\* C1: a run on the outline that a first run wrote for the same clippings,
\* starting from no outline, completes without an exception and writes an
\* outline with the same entities: none lost, none duplicated.
C1_ReimportStable ==
  [][(/\ pc = "main"
      /\ args[1] = NoFile
      /\ ~IsExc(ret)
      /\ pc' = "main"
      /\ kindle_file' = kindle_file)
       => (~IsExc(ret') /\ SameEntities(org_file', org_file))]_vars

\* C2: merging an outline state with a second parse of itself returns a map
\* with exactly the names, titles and annotations (count, coarse identity,
\* status, body, properties) of that state.
C2_MergeIdentity ==
  (pc = "merge_files" /\ args[1] = args[2] /\ IsOutlineState(args[1]))
    => (~IsExc(ret) /\ SameState(ret.val, args[1]))

\* C3: parse_org succeeds on the text of every serialized hierarchy, and the
\* hierarchy it returns serializes to the same text.
C3_RoundTrip ==
  [][/\ (pc = "serialize" /\ pc' = "parse_org") => ~IsExc(ret')
     /\ (pc = "parse_org" /\ pc' = "serialize") => ret' = Ok(args[1])]_vars

\* C4: when right covers the names and titles of left, merge_files returns a
\* map in which every annotation of left is represented by an annotation of
\* the same coarse identity, with a status not earlier, a body that contains
\* its stripped body and properties that contain its keys.
C4_OldEditsPreserved ==
  (pc = "merge_files" /\ Covers(args[2], args[1]))
    => /\ ~IsExc(ret)
       /\ \A x \in AnnotationsOf(args[1]) :
            \E y \in AnnotationsOf(ret.val) :
              /\ y[1] = x[1]
              /\ y[2] = x[2]
              /\ Annotation_eq(y[3], x[3])
              /\ Rank(y[3].status) >= Rank(x[3].status)
              /\ \/ strip(OrEmpty(x[3].body)) = <<>>
                 \/ Contains(OrEmpty(y[3].body), strip(OrEmpty(x[3].body)))
              /\ DOMAIN x[3].properties \subseteq DOMAIN y[3].properties

\* C5: when right covers the names and titles of left, merge_files returns a
\* map that holds every annotation of right, by coarse identity, under its
\* author name and book title.
C5_NewFactsAbsorbed ==
  (pc = "merge_files" /\ Covers(args[2], args[1]))
    => /\ ~IsExc(ret)
       /\ \A x \in AnnotationsOf(args[2]) :
            \E y \in AnnotationsOf(ret.val) :
              y[1] = x[1] /\ y[2] = x[2] /\ Annotation_eq(y[3], x[3])

\* No two annotations of the list share a coarse identity.
UniqueIdentities(l) ==
  \A i \in DOMAIN l : \A j \in DOMAIN l :
    Annotation_eq(l[i], l[j]) => i = j

\* C6: Book.merge of two books whose lists have unique coarse identities
\* leaves self with a merged list in which no two annotations share a coarse
\* identity.
C6_IdentityUniqueAfterMerge ==
  (/\ pc = "Book.merge"
   /\ UniqueIdentities(args[1].annotations)
   /\ UniqueIdentities(args[2].annotations))
    => (~IsExc(ret) /\ UniqueIdentities(ret.val.annotations))

\* C7: merge_files returns normally, for any two maps, the map over the union
\* of the names: left's author for a name only left has, right's author for
\* a name only right has, left's author merged with right's for a name of
\* both.
C7_MergeFilesUnion ==
  pc = "merge_files"
    => LET left == args[1]
           right == args[2]
       IN /\ ~IsExc(ret)
          /\ DOMAIN ret.val = (DOMAIN left) \cup (DOMAIN right)
          /\ \A n \in (DOMAIN left) \ (DOMAIN right) : ret.val[n] = left[n]
          /\ \A n \in (DOMAIN right) \ (DOMAIN left) : ret.val[n] = right[n]
          /\ \A n \in (DOMAIN left) \cap (DOMAIN right) :
               /\ ~IsExc(Author_merge(left[n], right[n]))
               /\ ret.val[n] = Author_merge(left[n], right[n]).val

\* C8: Author.merge of two same-named authors that differ returns normally
\* with self.books over the union of the titles: self's book for a title
\* only self has, other's book for a title only other has, self's book
\* merged with other's for a title of both.
C8_AuthorMergeUnion ==
  (pc = "Author.merge" /\ args[1] # args[2])
    => LET self == args[1]
           other == args[2]
       IN /\ ~IsExc(ret)
          /\ DOMAIN ret.val.books = (DOMAIN self.books) \cup (DOMAIN other.books)
          /\ \A t \in (DOMAIN self.books) \ (DOMAIN other.books) :
               ret.val.books[t] = self.books[t]
          /\ \A t \in (DOMAIN other.books) \ (DOMAIN self.books) :
               ret.val.books[t] = other.books[t]
          /\ \A t \in (DOMAIN self.books) \cap (DOMAIN other.books) :
               /\ ~IsExc(Book_merge(self.books[t], other.books[t]))
               /\ ret.val.books[t]
                    = Book_merge(self.books[t], other.books[t]).val

\* C9: for every pair (a, b) of status markers, Todo merge returns a or b,
\* the result is never earlier than a or than b in the progression, and
\* merge(a, b) = merge(b, a).
C9_TodoMergeAdvances ==
  pc = "Todo._merge"
    => /\ ret \in {args[1], args[2]}
       /\ Rank(ret) >= Rank(args[1])
       /\ Rank(ret) >= Rank(args[2])
       /\ Todo_merge(args[2], args[1]) = ret

\* A merge that advanced the status: started with done gives done.
C9_Witness == pc = "Todo._merge" /\ args = <<Strt, Done>> /\ ret = Done

\* C10 as stated: the merge of a checkbox state and a keyword state, none
\* included, yields the keyword state in either argument order.
C10_KeywordOutranksCheckbox ==
  pc = "Todo._merge"
    => /\ (args[1] \in CheckboxStates /\ args[2] \in KeywordStates)
            => ret = args[2]
       /\ (args[2] \in CheckboxStates /\ args[1] \in KeywordStates)
            => ret = args[1]

\* C10 as amended: the merge of a checkbox state c and a keyword state k, in
\* either argument order, yields k when k is not none, and c when k is none.
C10_NamedKeywordOutranksCheckbox ==
  pc = "Todo._merge"
    => \A c \in CheckboxStates, k \in KeywordStates :
         (args = <<c, k>> \/ args = <<k, c>>)
           => ret = IF k = NoTodo THEN c ELSE k

\* The merge of checked and waiting, which yields waiting.
C10_Witness == pc = "Todo._merge" /\ args = <<Checked, Wait>> /\ ret = Wait

\* The end of a location: of a single location the location itself.
LocationEnd(location) ==
  IF location[2].t = "none" THEN location[1] ELSE location[2]

\* The cases in which merge_note_with_highlight collates, but for the test of
\* the locations.
CollationCase(self, previous) ==
  /\ previous # <<>>
  /\ self.atype = Highlight
  /\ previous[1].atype = Note
  /\ self.title = previous[1].title
  /\ self.location # NoneRange
  /\ previous[1].location # NoneRange

\* What merge_note_with_highlight returns when it collates or not.
CollationResult(self, previous, result) ==
  IF result[1]
    THEN result[2] = [self EXCEPT !.atype = Note,
                                  !.my_note = previous[1].my_note]
    ELSE result[2] = self

\* C11 (as stated): merge_note_with_highlight collates exactly when the
\* current record is a highlight, the previous one a note of the same title,
\* and the end of the note's location equals the start of the highlight's
\* location; a collated record is a note with the highlight's selection and
\* the note's text, and otherwise the current record is returned unchanged.
C11_CollatesAtNoteEnd ==
  pc = "merge_note_with_highlight"
    => /\ ret[1] <=> (/\ CollationCase(args[1], args[2])
                      /\ PyEq(LocationEnd(args[2][1].location),
                              args[1].location[1]))
       /\ CollationResult(args[1], args[2], ret)

\* C11 (amended): merge_note_with_highlight collates exactly when the current
\* record is a highlight, the previous one a note of the same title, both have
\* a location, and the second element of the highlight's location equals the
\* first element of the note's location; a collated record is the highlight
\* with kind Note and the note's text, and otherwise the current record is
\* returned unchanged.
C11_CollatesAtHighlightEnd ==
  pc = "merge_note_with_highlight"
    => /\ ret[1] <=> (/\ CollationCase(args[1], args[2])
                      /\ PyEq(args[1].location[2], args[2][1].location[1]))
       /\ CollationResult(args[1], args[2], ret)

\* A highlight of the locations 1-2 after a note at location 2 is collated.
C11_Witness ==
  /\ pc = "merge_note_with_highlight"
  /\ ret[1]
  /\ args[1].location = <<PyInt(1), PyInt(2)>>
  /\ args[2][1].location = <<PyInt(2), PyNone>>
  /\ ret[2].atype = Note /\ ret[2].selection = <<"s">> /\ ret[2].my_note = <<"n">>

\* The records read from the sections of a clippings text.
SectionRecords(file_str) ==
  parse_kindle_annotations(split_str(JoinStr(file_str), KINDLE_SEPARATOR)).val

\* The list `results` of parse_kindle before it is sorted.
FlatRecords(file_str) ==
  parse_kindle_flushed(
    collate(SectionRecords(file_str), Len(SectionRecords(file_str))))

\* The record of section n is collated with the pending note.
IsCollated(annotations, n) ==
  merge_note_with_highlight(annotations[n],
                            collate(annotations, n - 1).prev)[1]

\* The record of section n is a note that the next section absorbs.
IsAbsorbed(annotations, n) ==
  /\ n < Len(annotations)
  /\ ~IsCollated(annotations, n)
  /\ IsCollated(annotations, n + 1)

\* The records that are due: of every section its record, collated or not,
\* but for the absorbed notes.
RECURSIVE DueRecords(_, _)
DueRecords(annotations, n) ==
  IF n = 0 THEN <<>>
  ELSE IF IsAbsorbed(annotations, n) THEN DueRecords(annotations, n - 1)
  ELSE Append(DueRecords(annotations, n - 1),
              IF IsCollated(annotations, n)
                THEN merge_note_with_highlight(
                       annotations[n], collate(annotations, n - 1).prev)[2]
                ELSE annotations[n])

\* The number of times x occurs in the list l.
Occurrences(l, x) == Cardinality({i \in 1..Len(l) : l[i] = x})

\* C12: the flat list of parse_kindle holds every record exactly once: it is
\* as long as the number of sections less the number of collations, and it
\* holds each due record (a collated record, or a record that is neither
\* collated nor an absorbed note; the last one included) as often as the
\* sections give it, and nothing else.
C12_EachRecordOnce ==
  pc = "parse_kindle"
    => LET annotations == SectionRecords(args[1])
           flat == FlatRecords(args[1])
           due == DueRecords(annotations, Len(annotations))
       IN /\ Len(flat)
               = Len(annotations)
                   - Cardinality({n \in 1..Len(annotations) :
                                    IsCollated(annotations, n)})
          /\ \A i \in 1..Len(flat) :
               Occurrences(flat, flat[i]) = Occurrences(due, flat[i])
          /\ \A i \in 1..Len(due) :
               Occurrences(flat, due[i]) = Occurrences(due, due[i])

\* C13: parse_kindle and parse_org return the empty map for the empty text.
C13_EmptyTextEmptyMap ==
  (pc \in {"parse_kindle", "parse_org"} /\ args[1] = <<<<>>>>)
    => ret = Ok(<<>>)

\* a < b returns True.
IsLt(a, b) == Annotation_lt(a, b) = Ok(TRUE)

\* Neither a < b nor b < a.
Incomparable(a, b) == ~IsLt(a, b) /\ ~IsLt(b, a)

\* The key of the order of the annotations: the author without case, the
\* title without case and leading article, the page value, the start of the
\* location and the creation date.
OrderKey(a) ==
  <<lower(a.author), sub_articles(lower(a.title), 1),
    IF a.page_number # NoneRange THEN PageKey(a.page_number[1]) ELSE neg_inf,
    IF a.location # NoneRange THEN LocationKey(a.location[1])
    ELSE [t |-> "num", v |-> Big(-1, 0)],
    a.creation_date>>

\* C14: Annotation.__lt__ is a strict total order on the key: it returns for
\* every pair, no record is below itself, a < b excludes b < a, a < b and
\* b < c give a < c, two records of which none is below the other have the
\* same key, and "none below the other" is transitive.
C14_StrictTotalOrder ==
  pc = "Annotation.__lt__"
    => /\ ~IsExc(ret)
       /\ ~IsLt(args[1], args[1])
       /\ IsLt(args[1], args[2]) => ~IsLt(args[2], args[1])
       /\ Incomparable(args[1], args[2])
            => OrderKey(args[1]) = OrderKey(args[2])
       /\ \A c \in SampleRecords :
            /\ (IsLt(args[1], args[2]) /\ IsLt(args[2], c))
                 => IsLt(args[1], c)
            /\ (Incomparable(args[1], args[2]) /\ Incomparable(args[2], c))
                 => Incomparable(args[1], c)

\* C15: between its first and its last line write_properties gives one line
\* `:KEY: value` for every property with a non-empty value and no other
\* line, the key in upper case, and the lines ascend by these keys.
C15_PropertiesSortedUpper ==
  pc = "write_properties"
    => LET properties == args[1].properties
           kept == {k \in DOMAIN properties :
                      properties[k] # NoneStr /\ properties[k] # <<>>}
           lines == SubSeq(ret, 2, Len(ret) - 1)
       IN /\ Len(lines) = Cardinality(kept)
          /\ \A k \in kept :
               Occurrences(lines, PropertyLine(k, properties[k])) = 1
          /\ \A i \in 1..Len(lines), j \in 1..Len(lines) :
               i < j => StrLt(ParseProperty(lines[i])[1],
                              ParseProperty(lines[j])[1])

\* The node without its CREATION_DATE property.
Undated(n) ==
  [n EXCEPT !.node.properties = Without(@, {upper(K_creation_date)})]

\* C16: an annotation node whose CREATION_DATE is no date is read as the node
\* without the property is read, with no creation date, and an outline with
\* such a node is parsed as the outline without the property is parsed: when
\* these succeed, so do Annotation.from_org and parse_org.
C16_BadDateReadAsNone ==
  /\ (/\ pc = "Annotation.from_org"
      /\ IsExc(org_strptime(Get(args[1].node.properties,
                                 upper(K_creation_date))))
      /\ ~IsExc(Annotation_from_org(Undated(args[1]))))
       => /\ ret = Annotation_from_org(Undated(args[1]))
          /\ ret.val.creation_date = NoneDate
  /\ pc = "parse_org"
       => \A author_status \in {<<>>, <<"[", "X", "]", " ">>},
             heading \in SampleHeadings :
            (/\ args[1] = SampleOutline(author_status, heading, <<"x">>)
             /\ ~IsExc(parse_org(SampleOutline(author_status, heading,
                                                NoneStr))))
              => ret = parse_org(SampleOutline(author_status, heading,
                                               NoneStr))

\* The heading has a token [c] with one character c that is none of the
\* four characters of a checkbox.
HasOtherCheckbox(heading) ==
  \E i \in 1..(Len(heading) - 2) :
    /\ heading[i] = "["
    /\ heading[i + 2] = "]"
    /\ heading[i + 1] \notin {" ", "X", "-", "?"}

\* C17: parse_heading raises OrgHeaderException for a heading with a token
\* of the shape of a checkbox and another character in it, with or without a
\* keyword on the node.
C17_OtherCheckboxIsFatal ==
  (pc = "parse_heading" /\ HasOtherCheckbox(args[1].heading))
    => ret = Raise("OrgHeaderException")

\* C18: a run that ends with an exception (the clippings cannot be read, a
\* parse or the merge fails) leaves the outline file as it was, and a run
\* that returns has written the text computed from the two files read.
C18_AllOrNothing ==
  [][pc' = "main"
       => /\ IsExc(ret') => org_file' = org_file
          /\ ~IsExc(ret')
               => Ok(org_file')
                    = main_output(IF org_file = NoFile THEN <<<<>>>>
                                  ELSE org_file,
                                  kindle_file')]_vars

\* A run on an outline that exists has ended with an exception, and the
\* outline is as it was read.
C18_Witness ==
  /\ pc = "main"
  /\ IsExc(ret)
  /\ args[1] # NoFile
  /\ org_file = args[1]

\* C19: a run without an outline file, on clippings that parse_kindle reads,
\* returns: the prior state is the empty map, merge_files of the empty map
\* and the authors of the clippings gives these authors as they are, and the
\* outline written is the text of these authors.
C19_MissingOutlineIsEmpty ==
  [][(/\ pc' = "main"
      /\ org_file = NoFile
      /\ kindle_file' # NoFile
      /\ ~IsExc(parse_kindle(kindle_file')))
       => /\ parse_org(<<<<>>>>) = Ok(<<>>)
          /\ merge_files(<<>>, parse_kindle(kindle_file').val)
               = parse_kindle(kindle_file')
          /\ ~IsExc(ret')
          /\ Ok(org_file') = serialize(parse_kindle(kindle_file').val)]_vars

\* A run without an outline file has written an outline with an author.
C19_Witness ==
  /\ pc = "main"
  /\ args[1] = NoFile
  /\ ~IsExc(ret)
  /\ Len(org_file) > 1
  /\ Ok(org_file) = serialize(parse_kindle(kindle_file).val)

\* The text before the first parenthesis of s.
BeforeParenthesis(s) ==
  IF \E i \in 1..Len(s) : s[i] = "("
    THEN SubSeq(s, 1, Least({i \in 1..Len(s) : s[i] = "("}) - 1)
    ELSE s

\* C20: get_title_author_series returns the stripped text before the first
\* parenthesis as the title; one group is the author, without series; of two
\* groups the first is the series and the second the author; without a group
\* the author is "Unknown", without series.
C20_TitleAuthorSeries ==
  pc = "get_title_author_series"
    => /\ ~IsExc(ret)
       /\ ret.val[1] = strip(BeforeParenthesis(args[1]))
       /\ Len(Parenthesized(args[1])) = 1
            => /\ ret.val[2] = Parenthesized(args[1])[1]
               /\ ret.val[3] = NoneStr
       /\ Len(Parenthesized(args[1])) = 2
            => /\ ret.val[2] = Parenthesized(args[1])[2]
               /\ ret.val[3] = Parenthesized(args[1])[1]
       /\ Len(Parenthesized(args[1])) = 0
            => /\ ret.val[2] = <<"U", "n", "k", "n", "o", "w", "n">>
               /\ ret.val[3] = NoneStr

\* The last word of s: what follows the last space.
LastWord(s) ==
  LET spaces == {i \in 1..Len(s) : s[i] = " "}
  IN IF spaces = {} THEN s
     ELSE SubSeq(s, (CHOOSE i \in spaces : \A j \in spaces : j <= i) + 1,
                 Len(s))

\* The positions of "-" in s, in ascending order.
Dashes(s) ==
  LET IsDash(i) == s[i] = "-"
  IN SelectSeq([i \in 1..Len(s) |-> i], IsDash)

\* The value of one side of a range: the integer the text is a literal of,
\* or the text.
SideValue(s) == IF IntLiteral(s) THEN PyInt(int(s)) ELSE PyStr(s)

\* C21: for a non-empty text page_or_location reads the last word: without
\* "-" in it the result is (value, None) for the value of the word, with "-"
\* in it the result is (left, right) for the values of the text before the
\* first "-" and of the text between the first "-" and the next one (or the
\* end); the value of a side is an integer when the side is an integer
\* literal and the text of the side otherwise.
C21_LastWordSplitOnDash ==
  (pc = "page_or_location" /\ args[1] # NoneStr /\ args[1] # <<>>)
    => LET word == LastWord(args[1])
           d == Dashes(word) \o <<Len(word) + 1>>
       IN IF Len(d) = 1
            THEN ret = <<SideValue(word), PyNone>>
            ELSE ret = <<SideValue(SubSeq(word, 1, d[1] - 1)),
                         SideValue(SubSeq(word, d[1] + 1, d[2] - 1))>>

\* "page iv-12" is read as ("iv", 12), and "page 007" as (7, None).
C21_Witness ==
  /\ pc = "page_or_location"
  /\ \/ /\ args[1] = <<"p", "a", "g", "e", " ", "i", "v", "-", "1", "2">>
        /\ ret = <<PyStr(<<"i", "v">>), PyInt(12)>>
     \/ /\ args[1] = <<"p", "a", "g", "e", " ", "0", "0", "7">>
        /\ ret = <<PyInt(7), PyNone>>

\* The roman numeral of n, for n below 90.
RECURSIVE Roman(_)
Roman(n) ==
  IF n = 0 THEN <<>>
  ELSE IF n >= 50 THEN <<"L">> \o Roman(n - 50)
  ELSE IF n >= 40 THEN <<"X", "L">> \o Roman(n - 40)
  ELSE IF n >= 10 THEN <<"X">> \o Roman(n - 10)
  ELSE IF n = 9 THEN <<"I", "X">>
  ELSE IF n >= 5 THEN <<"V">> \o Roman(n - 5)
  ELSE IF n = 4 THEN <<"I", "V">>
  ELSE <<"I">> \o Roman(n - 1)

RomanDigits == {"I", "V", "X", "L", "C", "D", "M"}

\* C22: roman_to_float returns an integer unchanged, returns None for every
\* non-empty text with a letter that is no roman digit (in any position, in
\* either case), and returns n / 10000 for the roman numeral of n (a numeral
\* of up to MaxNumeral letters has a value of at most 10 * MaxNumeral).
C22_RomanToFloat ==
  pc = "roman_to_float"
    => /\ args[1].t = "int"
            => (ret.t = "num" /\ ret.v = BigOfInt(args[1].v))
       /\ (/\ args[1].t = "str"
           /\ \E i \in 1..Len(args[1].v) :
                upper(args[1].v)[i] \notin RomanDigits)
            => ret.t = "none"
       /\ \A n \in 1..(10 * MaxNumeral) :
            (args[1].t = "str" /\ upper(args[1].v) = Roman(n))
              => (ret.t = "num" /\ ret.v = Big(0, n))


\* C23: in parse_kindle a highlight is only collated with the note of the
\* section immediately before it, so that no note is absorbed by two
\* highlights: a section whose record is collated follows a section with a
\* note, and the section before a collated one is never collated itself.
C23_NoteAbsorbedOnce ==
  pc = "parse_kindle"
    => \A n \in 1..Len(SectionRecords(args[1])) :
         IsCollated(SectionRecords(args[1]), n)
           => /\ n > 1
              /\ SectionRecords(args[1])[n - 1].atype = Note
              /\ ~IsCollated(SectionRecords(args[1]), n - 1)


\* The books of an author map as <<name, title>>.
BooksOf(m) ==
  UNION {{<<n, t>> : t \in DOMAIN m[n].books} : n \in DOMAIN m}

\* The number of annotations of the given books of an author map.
RECURSIVE CountAnnotations(_, _)
CountAnnotations(m, books) ==
  IF books = {} THEN 0
  ELSE LET b == CHOOSE b \in books : TRUE
       IN Len(m[b[1]].books[b[2]].annotations)
            + CountAnnotations(m, books \ {b})

\* C24: the grouping of parse_kindle is a partition of the flat list of
\* records: every record is in the book that is stored under its title in
\* the author of its name, as often as it is in the flat list, and in no
\* other book; and the books have as many annotations as the flat list has
\* records.
C24_GroupingIsPartition ==
  (pc = "parse_kindle" /\ ~IsExc(ret))
    => /\ \A i \in 1..Len(FlatRecords(args[1])) :
            LET r == FlatRecords(args[1])[i]
            IN /\ r.author \in DOMAIN ret.val
               /\ r.title \in DOMAIN ret.val[r.author].books
               /\ Occurrences(ret.val[r.author].books[r.title].annotations, r)
                    = Occurrences(FlatRecords(args[1]), r)
               /\ \A e \in AnnotationsOf(ret.val) :
                    e[3] = r => (e[1] = r.author /\ e[2] = r.title)
       /\ CountAnnotations(ret.val, BooksOf(ret.val))
            = Len(FlatRecords(args[1]))


\* C25: to_org does not mutate: after Annotation.to_org, Book.to_org or
\* Author.to_org the entity is as it was before the call, with its properties
\* map, progress, heading and level and with all its descendants, and a
\* second call returns the same text.
C25_ToOrgDoesNotMutate ==
  /\ pc \in {"Annotation.to_org", "Book.to_org", "Author.to_org"}
       => ret.self = args[1]
  /\ pc = "Annotation.to_org"
       => Ok(Annotation_to_org(ret.self, args[2])) = ret.text
  /\ pc = "Book.to_org" => Book_to_org(ret.self, args[2]) = ret.text
  /\ pc = "Author.to_org" => Author_to_org(ret.self) = ret.text


\* C26: the digest of an author folds in the status and the digests of the
\* books: an author of the same name with another status, or with books of
\* the same titles of which one differs in an annotation, has another digest.
C26_AuthorDigestFoldsAll ==
  (pc = "hash" /\ args[1] = "Author")
    => \A other \in SampleAuthors(Poe) :
         (/\ other.author_name = args[2].author_name
          /\ \/ other.status # args[2].status
             \/ /\ DOMAIN other.books = DOMAIN args[2].books
                /\ \E t \in DOMAIN other.books :
                     other.books[t].annotations # args[2].books[t].annotations)
           => /\ ~IsExc(ret)
              /\ ~IsExc(hash("Author", other))
              /\ ret.val # hash("Author", other).val


\* `status or Todo.NoTodo`
StatusOrNoTodo(status) == IF status = None THEN NoTodo ELSE status

\* C27: after x._org_merge(y) the status of x is the Todo merge of the two
\* statuses, None counting as NoTodo; the properties of x have the keys of
\* both maps, with the value of y where both have the key; the body of x is
\* its stripped body when the stripped bodies are equal, and else its
\* stripped body followed by the stripped body of y; y and the other fields
\* of x are as before.
C27_OrgMergeFields ==
  pc = "_org_merge"
    => /\ ret[1].status = Todo_merge(StatusOrNoTodo(args[1].status),
                                     StatusOrNoTodo(args[2].status))
       /\ DOMAIN ret[1].properties
            = (DOMAIN args[1].properties) \cup (DOMAIN args[2].properties)
       /\ \A k \in DOMAIN ret[1].properties :
            ret[1].properties[k] = IF k \in DOMAIN args[2].properties
                                     THEN args[2].properties[k]
                                     ELSE args[1].properties[k]
       /\ ret[1].body
            = IF strip(OrEmpty(args[1].body)) = strip(OrEmpty(args[2].body))
                THEN strip(OrEmpty(args[1].body))
                ELSE strip(OrEmpty(args[1].body))
                       \o strip(OrEmpty(args[2].body))
       /\ ret[2] = args[2]
       /\ [ret[1] EXCEPT !.status = args[1].status,
                         !.body = args[1].body,
                         !.properties = args[1].properties] = args[1]

\* An open entity with the body " a\n" and k = v is merged with a closed one
\* with the body "b" and k = w: it is closed, its body is "ab" and k = w.
C27_Witness ==
  /\ pc = "_org_merge"
  /\ args[1].status = Unchecked /\ args[2].status = Done
  /\ args[1].body = <<" ", "a", "\n">> /\ args[2].body = <<"b">>
  /\ <<"k">> \in DOMAIN args[1].properties
  /\ <<"k">> \in DOMAIN args[2].properties
  /\ args[1].properties[<<"k">>] = <<"v">>
  /\ args[2].properties[<<"k">>] = <<"w">>
  /\ ret[1].status = Done
  /\ ret[1].body = <<"a", "b">>
  /\ ret[1].properties[<<"k">>] = <<"w">>


\* C28: the digest of an annotation, a book or an author with a status is an
\* integer, hashing never raises, and no Book.merge or Author.merge fails
\* with the TypeError of a hash call.
C28_HashNeverRaises ==
  /\ (pc = "hash" /\ args[2].status # None) => ~IsExc(ret)
  /\ pc \in {"Book.merge", "Author.merge"} => ret.exc # "TypeError"

\* C29: parse_heading is total: it returns a status and a heading for every
\* node, and for a node without a keyword and without a checkbox it returns
\* NoTodo and the heading of the node without the progress indicator.
C29_ParseHeadingTotal ==
  pc = "parse_heading"
    => /\ ~IsExc(ret)
       /\ (args[1].todo = None /\ CheckMatches(strip(args[1].heading)) = {})
            => /\ ret.val[1] = NoTodo
               /\ ret.val[2]
                    = IF ProgressMatches(strip(args[1].heading)) = {}
                        THEN strip(args[1].heading)
                        ELSE strip(BeforeProgress(
                               strip(args[1].heading),
                               Least(ProgressMatches(strip(args[1].heading)))))

\* C30: _org_merge is idempotent in its argument: a second x._org_merge(y)
\* with the same y leaves the status, the body and the properties of x as
\* they are after the first, so that no body grows by a repeated merge.
C30_OrgMergeIdempotent ==
  pc = "_org_merge again"
    => /\ ret[1].status = args[1].status
       /\ ret[1].properties = args[1].properties
       /\ ret[1].body = args[1].body

====
